---- MODULE Spec2Model ----
(***************************************************************************)
(* A model of particle-tracking-manager's configuration handling.          *)
(*                                                                         *)
(* Part I  : TheManagerConfig (config_the_manager.py), the pydantic model  *)
(*           whose construction validates the fields and resolves the     *)
(*           time window (start_time, end_time, duration, steps).         *)
(* Part II : ParticleTrackingManager / OpenDriftModel (the_manager.py,     *)
(*           models/opendrift/model_opendrift.py), the object whose       *)
(*           __setattr__ cascades overrides and whose lifecycle is         *)
(*           add_reader -> seed -> run.                                    *)
(*                                                                         *)
(* Conventions.  A Python Optional value is a sequence of length 0 (None)  *)
(* or 1 (the value).  Timestamps are integers: minutes since               *)
(* 2022-01-01T00:00.  Timedeltas are integers: minutes.  An ISO-8601       *)
(* duration string is the sequence of its <<designator, number>> tokens,   *)
(* so "PT90M" is << <<"M", 90>> >> and "P0DT1H30M0S" is                    *)
(* << <<"D",0>>, <<"H",1>>, <<"M",30>>, <<"S",0>> >>: two strings are      *)
(* equal exactly when they are the same text.  Keyword arguments are a     *)
(* function from the supplied keys to their values.                        *)
(***************************************************************************)
EXTENDS Integers, Sequences, FiniteSets, TLC

VARIABLES
    kwargs,     \* the keyword arguments of the latest constructor call
    config,     \* the TheManagerConfig object that call returned, or NoConfig
    status,     \* "none" before any call, "ok" or "error" after it
    error,      \* the message of the error raised, "" when none
    first,      \* the object returned by the first call, kept while it is re-resolved
    phase,      \* "new", "constructed", "reresolved"
    m,          \* the OpenDriftModel object, or NoObject
    raised,     \* the exception the latest call on it raised, "" when none
    calls,      \* the number of calls made on it since its construction
    shown,      \* the latest query of a configuration: its arguments and what it returned
    od,         \* the lifecycle state of the OpenDriftModel object of opendrift.py
    trace       \* the calls the command line's main() has made, in order

vars == <<kwargs, config, status, error, first, phase, m, raised, calls, shown, od, trace>>

----------------------------------------------------------------------------
(* Bounds of the model *)

\* timestamps and durations lie on a grid of TimeUnit minutes, 0..MaxTime cells
TimeUnit == 30
MaxTime == 3
\* steps supplied by the caller range over 0..MaxSteps
MaxSteps == 3
\* time_step supplied by the caller ranges over TimeUnit * (1..MaxTimeStep)
MaxTimeStep == 3
MaxCalls == 2
\* the nested __setattr__ frames the interpreter allows (sys.getrecursionlimit)
RecursionLimit == 6
\* the OpenDriftModel objects one program constructs
MaxModels == 2

----------------------------------------------------------------------------
(* Python values *)

None == <<>>
Some(v) == <<v>>
Val(o) == o[1]
Abs(i) == IF i < 0 THEN -i ELSE i

\* pandas.Timedelta(<ISO-8601 string>): the value of the tokens, in minutes
RECURSIVE Timedelta(_)
Timedelta(s) ==
    IF s = <<>> THEN 0
    ELSE LET tok == Head(s)
             w == CASE tok[1] = "D" -> tok[2] * 1440
                    [] tok[1] = "H" -> tok[2] * 60
                    [] tok[1] = "M" -> tok[2]
                    [] tok[1] = "S" -> tok[2] \div 60
         IN  w + Timedelta(Tail(s))

\* pandas.Timedelta(td).isoformat(): the canonical text P{d}DT{h}H{m}M{s}S
isoformat(td) ==
    << <<"D", td \div 1440>>, <<"H", (td % 1440) \div 60>>,
       <<"M", td % 60>>, <<"S", 0>> >>

\* round(a / b) as Python computes it: the nearest integer, a tie to the even one
Round(a, b) ==
    LET q == a \div b
        r == a % b
    IN  IF 2 * r < b THEN q
        ELSE IF 2 * r > b THEN q + 1
        ELSE IF q % 2 = 0 THEN q ELSE q + 1

\* mutant: the quotient rounded to the nearest integer
IntQuot_rounded(a, b) == Round(a, b)

\* int(a / b) for timedeltas a >= 0, b > 0: truncation of the quotient
IntQuot(a, b) == a \div b

----------------------------------------------------------------------------
(* Part I: TheManagerConfig *)

\* the fields of the schema that the model follows
FieldNames ==
    {"lon", "lat", "geojson", "seed_flag", "start_time", "end_time",
     "duration", "steps", "time_step", "time_step_output", "run_forward"}

TimeFields == {"start_time", "end_time", "duration", "steps"}

DefaultStartTime == 0
DefaultTimeStep == 5
DefaultTimeStepOutput == 60
\* time_step: ge=0.01, le=1440; the model's time steps are whole minutes
TimeStepMax == 1440
TimeStepOutputMin == 1
TimeStepOutputMax == 1440
StepsMin == 1
StepsMax == 10000

Defaults ==
    [lon |-> Some(-151), lat |-> Some(58), geojson |-> None,
     seed_flag |-> "elements", start_time |-> Some(DefaultStartTime),
     end_time |-> None, duration |-> None, steps |-> None,
     time_step |-> DefaultTimeStep, time_step_output |-> DefaultTimeStepOutput,
     run_forward |-> TRUE]

\* the field values pydantic starts from: the keyword when supplied, else the default
Fields(kw) ==
    [f \in FieldNames |-> IF f \in DOMAIN kw THEN kw[f] ELSE Defaults[f]]

\* a validator's outcome: the (possibly updated) object, or the error raised
Ok(self) == [ok |-> TRUE, self |-> self, err |-> ""]
Raise(self, msg) == [ok |-> FALSE, self |-> self, err |-> msg]

NoConfig == <<>>

\* pydantic's field validation: "extra": "forbid", and the ge/le bounds of the fields
ExtraKeys(kw) == DOMAIN kw \ FieldNames

\* mutant: "extra": "ignore", an unknown keyword is dropped
validate_fields_ignore_extra(kw) ==
    LET self == Fields(kw)
    IN  IF self.lon # None /\ ~(-180 <= Val(self.lon) /\ Val(self.lon) <= 180)
        THEN Raise(self, "lon out of range")
        ELSE IF self.lat # None /\ ~(-90 <= Val(self.lat) /\ Val(self.lat) <= 90)
        THEN Raise(self, "lat out of range")
        ELSE IF self.steps # None
                /\ ~(StepsMin <= Val(self.steps) /\ Val(self.steps) <= StepsMax)
        THEN Raise(self, "steps out of range")
        ELSE IF ~(0 < self.time_step /\ self.time_step <= TimeStepMax)
        THEN Raise(self, "time_step out of range")
        ELSE IF ~(TimeStepOutputMin <= self.time_step_output
                  /\ self.time_step_output <= TimeStepOutputMax)
        THEN Raise(self, "time_step_output out of range")
        ELSE Ok(self)

validate_fields(kw) ==
    LET self == Fields(kw)
    IN  IF ExtraKeys(kw) # {}
        THEN Raise(self, "extra_forbidden")
        ELSE IF self.lon # None /\ ~(-180 <= Val(self.lon) /\ Val(self.lon) <= 180)
        THEN Raise(self, "lon out of range")
        ELSE IF self.lat # None /\ ~(-90 <= Val(self.lat) /\ Val(self.lat) <= 90)
        THEN Raise(self, "lat out of range")
        ELSE IF self.steps # None
                /\ ~(StepsMin <= Val(self.steps) /\ Val(self.steps) <= StepsMax)
        THEN Raise(self, "steps out of range")
        ELSE IF ~(0 < self.time_step /\ self.time_step <= TimeStepMax)
        THEN Raise(self, "time_step out of range")
        ELSE IF ~(TimeStepOutputMin <= self.time_step_output
                  /\ self.time_step_output <= TimeStepOutputMax)
        THEN Raise(self, "time_step_output out of range")
        ELSE Ok(self)

check_config_seed_flag_elements(self) ==
    IF self.seed_flag = "elements" /\ (self.lon = None \/ self.lat = None)
    THEN Raise(self, "lon and lat need non-None values")
    ELSE Ok(self)

check_config_seed_flag_geojson(self) ==
    IF self.seed_flag = "geojson" /\ self.geojson = None
    THEN Raise(self, "geojson need non-None value")
    ELSE IF self.seed_flag = "geojson" /\ (self.lon # None \/ self.lat # None)
    THEN Raise(self, "lon and lat need to be None")
    ELSE Ok(self)

non_none_count(self) == Cardinality({f \in TimeFields : self[f] # None})

\* mutant: any number of time fields other than four is let through
check_config_time_parameters_any_count(self) ==
    IF non_none_count(self) = 4
    THEN LET delta == Abs(Val(self.end_time) - Val(self.start_time))
         IN  IF isoformat(delta) # Val(self.duration)
             THEN Raise(self, "duration and calculated duration are inconsistent")
             ELSE IF IntQuot(delta, self.time_step) # Val(self.steps)
             THEN Raise(self, "steps and calculated steps are inconsistent")
             ELSE Ok(self)
    ELSE IF self.start_time = None /\ self.end_time = None
    THEN Raise(self, "One of start_time or end_time must be non-None")
    ELSE Ok(self)

\* mutant: with four fields supplied, steps is trusted and only duration is compared
check_config_time_parameters_trust_steps(self) ==
    IF non_none_count(self) = 4
    THEN IF isoformat(Abs(Val(self.end_time) - Val(self.start_time)))
                # Val(self.duration)
         THEN Raise(self, "duration and calculated duration are inconsistent")
         ELSE Ok(self)
    ELSE IF non_none_count(self) # 2
    THEN Raise(self, "Exactly two must be non-None")
    ELSE IF self.start_time = None /\ self.end_time = None
    THEN Raise(self, "One of start_time or end_time must be non-None")
    ELSE Ok(self)

check_config_time_parameters(self) ==
    LET both_none == self.start_time = None /\ self.end_time = None
        last == IF both_none
                THEN Raise(self, "One of start_time or end_time must be non-None")
                ELSE Ok(self)
    IN  IF non_none_count(self) = 4
        THEN LET delta == Abs(Val(self.end_time) - Val(self.start_time))
                 duration == isoformat(delta)
                 steps == IntQuot(delta, self.time_step)
             IN  IF duration # Val(self.duration)
                 THEN Raise(self, "duration and calculated duration are inconsistent")
                 ELSE IF steps # Val(self.steps)
                 THEN Raise(self, "steps and calculated steps are inconsistent")
                 ELSE last
        ELSE IF non_none_count(self) # 2
        THEN Raise(self, "Exactly two must be non-None")
        ELSE last

timedir(self) == IF self.run_forward THEN 1 ELSE -1

\* calculate_config_times, one definition per `if <field> is None:` block
calculate_steps(self) ==
    IF self.steps # None THEN Ok(self)
    ELSE IF self.duration # None
    THEN Ok([self EXCEPT !.steps =
                Some(IntQuot(Timedelta(Val(self.duration)), self.time_step))])
    ELSE IF self.end_time # None /\ self.start_time # None
    THEN Ok([self EXCEPT !.steps =
                Some(IntQuot(Abs(Val(self.end_time) - Val(self.start_time)),
                             self.time_step))])
    ELSE Raise(self, "steps has not been calculated")

calculate_duration(self) ==
    IF self.duration # None THEN Ok(self)
    ELSE IF self.end_time # None /\ self.start_time # None
    THEN Ok([self EXCEPT !.duration =
                Some(isoformat(Abs(Val(self.end_time) - Val(self.start_time))))])
    ELSE IF self.steps # None
    THEN Ok([self EXCEPT !.duration =
                Some(isoformat(Val(self.steps) * self.time_step))])
    ELSE Raise(self, "duration has not been calculated")

\* mutant: the two branches in the other order, end_time from duration first
calculate_end_time_duration_first(self) ==
    IF self.end_time # None THEN Ok(self)
    ELSE IF self.duration # None /\ self.start_time # None
    THEN Raise(self, "TypeError: datetime + str")
    ELSE IF self.steps # None /\ self.start_time # None
    THEN Ok([self EXCEPT !.end_time =
                Some(Val(self.start_time)
                     + timedir(self) * Val(self.steps) * self.time_step)])
    ELSE Raise(self, "end_time has not been calculated")

calculate_end_time(self) ==
    IF self.end_time # None THEN Ok(self)
    ELSE IF self.steps # None /\ self.start_time # None
    THEN Ok([self EXCEPT !.end_time =
                Some(Val(self.start_time)
                     + timedir(self) * Val(self.steps) * self.time_step)])
    ELSE IF self.duration # None /\ self.start_time # None
    THEN Raise(self, "TypeError: datetime + str")
    ELSE Raise(self, "end_time has not been calculated")

calculate_start_time(self) ==
    IF self.start_time # None THEN Ok(self)
    ELSE IF self.end_time # None /\ self.steps # None
    THEN Ok([self EXCEPT !.start_time =
                Some(Val(self.end_time)
                     - timedir(self) * Val(self.steps) * self.time_step)])
    ELSE IF self.duration # None /\ self.end_time # None
    THEN Raise(self, "TypeError: datetime - str")
    ELSE Raise(self, "start_time has not been calculated")

calculate_config_times(self) ==
    LET r1 == calculate_steps(self)
        r2 == IF r1.ok THEN calculate_duration(r1.self) ELSE r1
        r3 == IF r2.ok THEN calculate_end_time(r2.self) ELSE r2
    IN  IF r3.ok THEN calculate_start_time(r3.self) ELSE r3

\* TheManagerConfig(**kw): field validation, then the mode='after' validators in
\* the order of their definition
TheManagerConfig(kw) ==
    LET r1 == validate_fields(kw)
        r2 == IF r1.ok THEN check_config_seed_flag_elements(r1.self) ELSE r1
        r3 == IF r2.ok THEN check_config_seed_flag_geojson(r2.self) ELSE r2
        r4 == IF r3.ok THEN check_config_time_parameters(r3.self) ELSE r3
    IN  IF r4.ok THEN calculate_config_times(r4.self) ELSE r4

----------------------------------------------------------------------------
(* The calls made on TheManagerConfig *)

Times == {TimeUnit * k : k \in 0..MaxTime}
TimeSteps == {TimeUnit * k : k \in 1..MaxTimeStep}
\* two spellings of every duration on the grid: canonical, and minutes only
Durations ==
    {isoformat(TimeUnit * k) : k \in 0..MaxTime}
        \cup {<< <<"M", TimeUnit * k>> >> : k \in 0..MaxTime}

Empty == [k \in {} |-> None]
\* the ways to pass, or not to pass, keyword k with a value of Vs
Opt(k, Vs) == {Empty} \cup {k :> v : v \in Vs}

\* calls that vary the time window; the other fields keep their defaults
TimeKwargs ==
    {a @@ b @@ c @@ d @@ e @@ f :
        a \in Opt("start_time", {None} \cup {Some(t) : t \in Times}),
        b \in Opt("end_time", {Some(t) : t \in Times}),
        c \in Opt("duration", {Some(s) : s \in Durations}),
        d \in Opt("steps", {Some(n) : n \in 0..MaxSteps}),
        e \in Opt("time_step", TimeSteps),
        f \in Opt("run_forward", {FALSE})}

\* calls that vary the seeding fields and unknown keywords, with steps=1
SeedKwargs ==
    {("steps" :> Some(1)) @@ a @@ b @@ c @@ d @@ e :
        a \in Opt("lon", {None, Some(-181), Some(-151), Some(180)}),
        b \in Opt("lat", {None, Some(-91), Some(58), Some(90)}),
        c \in Opt("geojson", {Some("polygon")}),
        d \in Opt("seed_flag", {"elements", "geojson"}),
        e \in Opt("unknown", {"test"})}

----------------------------------------------------------------------------
(* Part II: ParticleTrackingManager / OpenDriftModel                        *)
(*                                                                         *)
(* The object is a record: a (its __dict__: attribute name -> value, the   *)
(* domain being the attributes that exist), ptm and mod (the "value"       *)
(* entries of config_ptm and config_model), oc (the "value" entries of     *)
(* o._config, the engine's configuration into which the other two are      *)
(* merged), reader (the metadata of the reader added, or NoReader), log    *)
(* (the messages logged by the latest call) and exc (the exception the     *)
(* latest call raised, "" when none).  A start_time value is a pair        *)
(* <<type, minutes>>.                                                      *)

NoObject == <<>>
NoReader == <<>>

\* keys of the_manager_config.json that the model follows
PtmKeys ==
    {"lon", "lat", "geojson", "seed_flag", "z", "seed_seafloor", "start_time",
     "run_forward", "time_step", "steps", "duration", "end_time",
     "ocean_model", "surface_only", "do3D", "vertical_mixing"}
\* keys of opendrift_config.json that the model follows
ModelKeys ==
    {"drift_model", "horizontal_diffusivity", "diffusivitymodel", "stokes_drift",
     "mixed_layer_depth", "wind_drift_factor", "wind_drift_depth",
     "vertical_mixing_timestep"}
DriftModels == {"OceanDrift", "LarvalFish", "OpenOil", "Leeway"}

\* the parameters of ParticleTrackingManager.__init__, in the order of the signature
ManagerParams ==
    <<"lon", "lat", "geojson", "seed_flag", "z", "seed_seafloor", "start_time",
      "run_forward", "time_step", "steps", "duration", "end_time",
      "ocean_model", "surface_only", "do3D", "vertical_mixing">>
\* time_step and duration in minutes; "By default steps is 3 and duration and
\* end_time are None", time_step "by default 3600" seconds
ManagerDefaults ==
    [lon |-> None, lat |-> None, geojson |-> None, seed_flag |-> "elements",
     z |-> Some(0), seed_seafloor |-> FALSE, start_time |-> None,
     run_forward |-> TRUE, time_step |-> 60, steps |-> Some(3), duration |-> None,
     end_time |-> None,
     ocean_model |-> None, surface_only |-> None, do3D |-> FALSE,
     vertical_mixing |-> FALSE]
\* the parameters of OpenDriftModel.__init__, in the order of the signature
ModelParams ==
    <<"drift_model", "horizontal_diffusivity", "diffusivitymodel", "stokes_drift",
      "mixed_layer_depth", "wind_drift_factor", "wind_drift_depth",
      "vertical_mixing_timestep">>
\* wind_drift_factor in 1/100, wind_drift_depth in 1/10 m
ModelDefaults ==
    [drift_model |-> "OceanDrift", horizontal_diffusivity |-> None,
     diffusivitymodel |-> "environment", stokes_drift |-> TRUE,
     mixed_layer_depth |-> 30, wind_drift_factor |-> 2, wind_drift_depth |-> 1,
     vertical_mixing_timestep |-> 60]

\* the "od_mapping" entries: semantic name -> engine-native key
OdMapping ==
    [z |-> "seed:z", seed_seafloor |-> "seed:seafloor",
     vertical_mixing |-> "drift:vertical_mixing",
     horizontal_diffusivity |-> "drift:horizontal_diffusivity",
     stokes_drift |-> "drift:stokes_drift",
     diffusivitymodel |-> "vertical_mixing:diffusivitymodel",
     mixed_layer_depth |-> "environment:fallback:ocean_mixed_layer_thickness",
     wind_drift_factor |-> "seed:wind_drift_factor",
     wind_drift_depth |-> "drift:wind_drift_depth",
     vertical_mixing_timestep |-> "vertical_mixing:timestep"]

\* o._config of a fresh engine object: the keys this code sets with o.set_config
EngineConfig(cls) ==
    IF cls = "Leeway" THEN Empty
    ELSE [k \in {"drift:use_tabularised_stokes_drift",
                 "drift:truncate_ocean_model_below_m",
                 "drift:vertical_advection", "drift:vertical_mixing"} |->
            CASE k = "drift:use_tabularised_stokes_drift" -> FALSE
              [] k = "drift:truncate_ocean_model_below_m" -> None
              [] k = "drift:vertical_advection" -> TRUE
              [] k = "drift:vertical_mixing" -> FALSE]

\* the attributes that hold None or a value
OptionalAttrs ==
    {"lon", "lat", "geojson", "z", "start_time", "ocean_model", "surface_only",
     "horizontal_diffusivity"}

Put(f, k, v) == (k :> v) @@ f
SetA(s, k, v) == [s EXCEPT !.a = Put(@, k, v)]
SetPtm(s, k, v) == [s EXCEPT !.ptm = Put(@, k, v)]
SetMod(s, k, v) == [s EXCEPT !.mod = Put(@, k, v)]
Log(s, msg) == [s EXCEPT !.log = @ \cup {msg}]
Exc(s, e) == [s EXCEPT !.exc = e]
Has(s, n) == n \in DOMAIN s.a

\* str.upper() on the ocean model names the model passes
Upper(x) ==
    CASE x = "CIOFS_now" -> "CIOFS_NOW"
      [] x = "test" -> "TEST"
      [] x = "user_input" -> "USER_INPUT"
      [] OTHER -> x

\* pd.Timestamp(value)
Timestamp(x) == <<"Timestamp", x[2]>>

\* the strings of the model that occur in str(type(self.o)), which is
\* "<class 'opendrift.models.oceandrift.OceanDrift'>" for an OceanDrift object
TypeNameParts(cls) == {cls} \cup (IF cls = "OceanDrift" THEN {"Drift"} ELSE {})

\* `drift_model in str(type(self.o))`
InTypeName(dm, cls) == dm \in TypeNameParts(cls)

----------------------------------------------------------------------------
(* update_config (_update_config in the source): config_ptm, then config_model, merged into o._config *)

\* MergeInto with the semantic names of o._config rebuilt at each merge: the
\* entries under the other namespace's names are dropped
MergeInto_rebuilds_names(oc, ns, Keys) ==
    LET mapped == Keys \cap DOMAIN OdMapping
        touched == Keys \cup {OdMapping[k] : k \in mapped}
        src(n) == IF n \in Keys THEN n
                  ELSE CHOOSE k \in mapped : OdMapping[k] = n
        val(k) == IF k \in DOMAIN ns THEN <<ns[k]>>
                  ELSE IF k \in mapped /\ OdMapping[k] \in DOMAIN oc
                  THEN <<oc[OdMapping[k]]>>
                  ELSE <<>>
        dom == (DOMAIN oc \ (touched \cup PtmKeys \cup ModelKeys))
                 \cup {n \in touched : Len(val(src(n))) = 1}
    IN  [n \in dom |-> IF n \in touched THEN val(src(n))[1] ELSE oc[n]]

\* MergeInto with {**v, **dict1[od_mapping]}: the engine's value wins where it has one
MergeInto_engine_on_top(oc, ns, Keys) ==
    LET mapped == Keys \cap DOMAIN OdMapping
        touched == Keys \cup {OdMapping[k] : k \in mapped}
        src(n) == IF n \in Keys THEN n
                  ELSE CHOOSE k \in mapped : OdMapping[k] = n
        val(k) == IF k \in mapped /\ OdMapping[k] \in DOMAIN oc
                  THEN <<oc[OdMapping[k]]>>
                  ELSE IF k \in DOMAIN ns THEN <<ns[k]>>
                  ELSE <<>>
        dom == (DOMAIN oc \ touched) \cup {n \in touched : Len(val(src(n))) = 1}
    IN  [n \in dom |-> IF n \in touched THEN val(src(n))[1] ELSE oc[n]]

\* add_ptm_config / add_model_config for the namespace ns with keys Keys
MergeInto(oc, ns, Keys) ==
    LET mapped == Keys \cap DOMAIN OdMapping
        touched == Keys \cup {OdMapping[k] : k \in mapped}
        src(n) == IF n \in Keys THEN n
                  ELSE CHOOSE k \in mapped : OdMapping[k] = n
        \* {**dict1[od_mapping], **v}: v's "value" when it has one, else the engine's
        val(k) == IF k \in DOMAIN ns THEN <<ns[k]>>
                  ELSE IF k \in mapped /\ OdMapping[k] \in DOMAIN oc
                  THEN <<oc[OdMapping[k]]>>
                  ELSE <<>>
        dom == (DOMAIN oc \ touched) \cup {n \in touched : Len(val(src(n))) = 1}
    IN  [n \in dom |-> IF n \in touched THEN val(src(n))[1] ELSE oc[n]]

add_ptm_config(s) == [s EXCEPT !.oc = MergeInto(@, s.ptm, PtmKeys)]
add_model_config(s) == [s EXCEPT !.oc = MergeInto(@, s.mod, ModelKeys)]
update_config(s) == add_model_config(add_ptm_config(s))

\* show_config(): the merged configuration, after _update_config
show_config(s) == update_config(s).oc

\* o.set_config(key, value): the engine rejects a key it does not have
set_config(s, key, value) ==
    IF key \in DOMAIN s.oc THEN [s EXCEPT !.oc = Put(@, key, value)]
    ELSE Exc(s, "ValueError")

\* show_config(key=k)["default"] for a key of config_model
ShowDefault(k) == ModelDefaults[k]

\* horizontal diffusivity tuned to a known model: 0.1 * dx
TunedDiffusivity(om) == IF om = "NWGOA" THEN 150 ELSE 10

----------------------------------------------------------------------------
(* ParticleTrackingManager.__setattr__ and OpenDriftModel.__setattr_model__ *)
(* Each step of a handler returns the object after it; the steps run in    *)
(* the order of the source, and a step after an exception is not taken.    *)

RECURSIVE SetAttr(_, _, _)
RECURSIVE SetAttrModel(_, _, _)

TheOne(S) == CHOOSE x \in S : TRUE

\* self.__dict__[name] = value; self.config_ptm[name]["value"] = value
WriteAttr(s, name, value) ==
    LET s1 == SetA(s, name, value)
    IN  IF name # "config_ptm" /\ name \in PtmKeys THEN SetPtm(s1, name, value) ELSE s1

ModelHook(s, name, value) ==
    IF Has(s, "config_model") THEN SetAttrModel(s, name, value) ELSE s

CheckLon(s, name, value) ==
    IF name = "lon" /\ value # None
       /\ ~(-180 <= Val(value) /\ Val(value) <= 180)
    THEN Exc(s, "AssertionError") ELSE s

CheckLat(s, name, value) ==
    IF name = "lat" /\ value # None
       /\ ~(-90 <= Val(value) /\ Val(value) <= 90)
    THEN Exc(s, "AssertionError") ELSE s

ConvertStartTime(s, name, value) ==
    IF name = "start_time" /\ value # None
    THEN IF Val(value)[1] \in {"str", "datetime", "Timestamp"}
         THEN SetPtm(SetA(s, name, Some(Timestamp(Val(value)))),
                     name, Some(Timestamp(Val(value))))
         ELSE Exc(s, "TypeError")
    ELSE s

UpperOceanModel(s, name, value) ==
    IF name = "ocean_model" /\ value # None
    THEN SetPtm(SetA(s, name, Some(Upper(Val(value)))),
                "ocean_model", Some(Upper(Val(value))))
    ELSE s

\* `overall_start_time <= value` with value the model's name: datetime <= str
CheckStartTimeOceanModel(s, name, value) ==
    IF name \in {"ocean_model", "start_time"}
       /\ Has(s, "start_time") /\ s.a.start_time # None
       /\ Has(s, "ocean_model") /\ s.a.ocean_model # None
       /\ name = "ocean_model" /\ Val(value) \in {"NWGOA", "CIOFS", "CIOFS_NOW"}
    THEN Exc(s, "TypeError") ELSE s

\* `self.ocean_model is not "test"` holds for every stored value
ShiftLon(s, name, value) ==
    IF name = "oceanmodel_lon0_360" /\ value = TRUE
       /\ s.a.lon # None /\ -180 < Val(s.a.lon) /\ Val(s.a.lon) < 0
    THEN SetA(s, "lon", Some(Val(s.a.lon) + 360))
    ELSE s

\* the cascade without `self.z = 0`
SurfaceOnlyCascade_keeps_z(s, name, value) ==
    IF name = "surface_only" /\ value # None /\ Val(value)
    THEN SetAttr(SetAttr(Log(s, "overriding do3D, z, vertical_mixing"),
                         "do3D", FALSE),
                 "vertical_mixing", FALSE)
    ELSE s

SurfaceOnlyCascade(s, name, value) ==
    IF name = "surface_only" /\ value # None /\ Val(value)
    THEN SetAttr(SetAttr(SetAttr(Log(s, "overriding do3D, z, vertical_mixing"),
                                 "do3D", FALSE),
                         "z", Some(0)),
                 "vertical_mixing", FALSE)
    ELSE s

\* AfterSurfaceOnly without the block "if not 3D turn off vertical_mixing"
AfterSurfaceOnly_keeps_mixing(s, name, value) ==
    IF /\ name \in {"do3D", "z", "vertical_mixing"}
       /\ Has(s, "surface_only") /\ s.a.surface_only # None /\ Val(s.a.surface_only)
    THEN SetPtm(SetA(Log(s, "overriding do3D, z, vertical_mixing"), name, value),
                name, value)
    ELSE s

\* AfterSurfaceOnly with `self.vertical_mixing = False`, the assignment the
\* source leaves commented out as "this is recursive"
AfterSurfaceOnly_recursive(s, name, value) ==
    IF name \in {"do3D", "z", "vertical_mixing"}
    THEN TheOne({IF Has(s1, "do3D") /\ ~s1.a.do3D
                 THEN SetAttr(Log(s1, "turning off vertical_mixing"),
                              "vertical_mixing", FALSE)
                 ELSE s1 :
                 s1 \in {IF Has(s, "surface_only") /\ s.a.surface_only # None
                            /\ Val(s.a.surface_only)
                         THEN SetPtm(SetA(Log(s, "overriding do3D, z, vertical_mixing"),
                                          name, value), name, value)
                         ELSE s}})
    ELSE s

\* `value is False` and `value is 0` are comparisons, not assignments
AfterSurfaceOnly(s, name, value) ==
    IF name \in {"do3D", "z", "vertical_mixing"}
    THEN TheOne({IF Has(s1, "do3D") /\ ~s1.a.do3D
                 THEN SetPtm(SetA(Log(s1, "turning off vertical_mixing"),
                                  "vertical_mixing", FALSE), "vertical_mixing", FALSE)
                 ELSE s1 :
                 s1 \in {IF Has(s, "surface_only") /\ s.a.surface_only # None
                            /\ Val(s.a.surface_only)
                         THEN SetPtm(SetA(Log(s, "overriding do3D, z, vertical_mixing"),
                                          name, value), name, value)
                         ELSE s}})
    ELSE s

SeedSeafloorClearsZ(s, name, value) ==
    IF name = "seed_seafloor" /\ value = TRUE
    THEN SetAttr(Log(s, "setting z to None"), "z", None)
    ELSE s

ZClearsSeedSeafloor(s, name, value) ==
    IF name = "z" /\ value # None /\ Has(s, "seed_seafloor")
    THEN SetAttr(Log(s, "setting seed_seafloor to False"), "seed_seafloor", FALSE)
    ELSE s

\* reader_metadata(key): the reader the engine holds, when it holds one
HasReaderMetadata(s) == s.reader # NoReader

CheckReaderDomain(s, name, value) ==
    IF /\ \/ name = "has_added_reader" /\ value = TRUE
             /\ s.a.lon # None /\ s.a.lat # None
          \/ name \in {"lon", "lat"} /\ Has(s, "has_added_reader")
             /\ s.a.has_added_reader /\ s.a.lon # None /\ s.a.lat # None
       /\ s.a.ocean_model # Some("TEST")
    THEN IF ~HasReaderMetadata(s) THEN Exc(s, "KeyError")
         ELSE IF /\ s.reader.lon_min < Val(s.a.lon) /\ Val(s.a.lon) < s.reader.lon_max
                 /\ s.reader.lat_min < Val(s.a.lat) /\ Val(s.a.lat) < s.reader.lat_max
              THEN s ELSE Exc(s, "AssertionError")
    ELSE s

StartTimeFromReader(s, name, value) ==
    IF name = "has_added_reader" /\ value = TRUE /\ s.a.start_time = None
    THEN IF ~HasReaderMetadata(s) THEN Exc(s, "KeyError")
         ELSE SetAttr(Log(s, "setting reader start_time as simulation start_time"),
                      "start_time", Some(<<"datetime", s.reader.start_time>>))
    ELSE s

CheckReaderStartTime(s, name, value) ==
    IF name = "has_added_reader" /\ value = TRUE /\ s.a.start_time # None
       /\ s.a.ocean_model # Some("TEST")
    THEN IF ~HasReaderMetadata(s) THEN Exc(s, "KeyError")
         ELSE IF s.reader.start_time <= Val(s.a.start_time)[2]
              THEN s ELSE Exc(s, "AssertionError")
    ELSE s

CheckOceanModelSet(s, name, value) ==
    IF name = "has_added_reader" /\ value = TRUE /\ s.a.ocean_model = None
    THEN Exc(s, "AssertionError") ELSE s

SetAttrSteps ==
    <<"write", "model", "lon", "lat", "start_time", "upper", "start_time_model",
      "shift", "surface_only", "after_surface_only", "seed_seafloor", "z",
      "reader_domain", "reader_start_time", "check_start_time", "check_ocean_model">>

SetAttrStep(step, s, name, value) ==
    IF s.exc # "" THEN s
    ELSE CASE step = "write" -> WriteAttr(s, name, value)
           [] step = "model" -> ModelHook(s, name, value)
           [] step = "lon" -> CheckLon(s, name, value)
           [] step = "lat" -> CheckLat(s, name, value)
           [] step = "start_time" -> ConvertStartTime(s, name, value)
           [] step = "upper" -> UpperOceanModel(s, name, value)
           [] step = "start_time_model" -> CheckStartTimeOceanModel(s, name, value)
           [] step = "shift" -> ShiftLon(s, name, value)
           [] step = "surface_only" -> SurfaceOnlyCascade(s, name, value)
           [] step = "after_surface_only" -> AfterSurfaceOnly(s, name, value)
           [] step = "seed_seafloor" -> SeedSeafloorClearsZ(s, name, value)
           [] step = "z" -> ZClearsSeedSeafloor(s, name, value)
           [] step = "reader_domain" -> CheckReaderDomain(s, name, value)
           [] step = "reader_start_time" -> StartTimeFromReader(s, name, value)
           [] step = "check_start_time" -> CheckReaderStartTime(s, name, value)
           [] step = "check_ocean_model" -> CheckOceanModelSet(s, name, value)

\* steps lo..hi in order: the first half is completed before the second starts
RECURSIVE SetAttrFrom(_, _, _, _, _)
SetAttrFrom(s, lo, hi, name, value) ==
    IF lo = hi THEN SetAttrStep(SetAttrSteps[lo], s, name, value)
    ELSE TheOne({SetAttrFrom(s1, (lo + hi) \div 2 + 1, hi, name, value) :
                 s1 \in {SetAttrFrom(s, lo, (lo + hi) \div 2, name, value)}})

\* the object on entry to __setattr__, one frame deeper
Enter(s) ==
    [s EXCEPT !.depth = @ + 1,
              !.deepest = IF s.depth + 1 > @ THEN s.depth + 1 ELSE @]

\* __setattr__(name, value); the interpreter raises RecursionError when the
\* frames nested exceed its limit
SetAttr(s, name, value) ==
    IF s.depth >= RecursionLimit THEN Exc(s, "RecursionError")
    ELSE TheOne({[s1 EXCEPT !.depth = s.depth] :
                 s1 \in {SetAttrFrom(s0, 1, Len(SetAttrSteps), name, value) :
                         s0 \in {Enter(s)}}})

CheckDriftModelOverwrite(s, name, value) ==
    IF name \in {"o", "drift_model"} /\ Has(s, "o")
       /\ ~InTypeName(s.a.drift_model, s.a.o)
    THEN Exc(s, "KeyError") ELSE s

WriteModelValue(s, name, value) ==
    update_config(
      IF Has(s, "config_model") /\ name \notin {"config_model", "config_ptm"}
         /\ name \in ModelKeys
      THEN SetMod(s, name, value) ELSE s)

\* at this point self.ocean_model still is the value as given
OceanModelDiffusivity(s, name, value) ==
    IF name = "ocean_model"
    THEN IF value \in {Some("NWGOA"), Some("CIOFS"), Some("CIOFS_now")}
            /\ Has(s, "horizontal_diffusivity")
         THEN SetAttr(Log(s, "overriding horizontal_diffusivity"),
                      "horizontal_diffusivity", Some(TunedDiffusivity(Val(value))))
         ELSE IF Has(s, "horizontal_diffusivity") /\ s.a.horizontal_diffusivity = None
         THEN SetAttr(Log(s, "changing horizontal_diffusivity from None to 0"),
                      "horizontal_diffusivity", Some(0))
         ELSE s
    ELSE s

\* here self.ocean_model is the stored, upper-case name
DiffusivityNone(s, name, value) ==
    IF name = "horizontal_diffusivity" /\ value = None
       /\ Has(s, "ocean_model")
    THEN IF s.a.ocean_model \in {Some("NWGOA"), Some("CIOFS"), Some("CIOFS_now")}
         THEN SetMod(SetA(Log(s, "overriding horizontal_diffusivity"),
                          "horizontal_diffusivity",
                          Some(TunedDiffusivity(Val(s.a.ocean_model)))),
                     "horizontal_diffusivity",
                     Some(TunedDiffusivity(Val(s.a.ocean_model))))
         ELSE SetMod(SetA(Log(s, "changing horizontal_diffusivity from None to 0"),
                          "horizontal_diffusivity", Some(0)),
                     "horizontal_diffusivity", Some(0))
    ELSE s

StokesDriftFlag(s, name, value) ==
    IF name = "stokes_drift" /\ value = TRUE
       /\ Has(s, "drift_model") /\ s.a.drift_model # "Leeway"
    THEN set_config(s, "drift:use_tabularised_stokes_drift", TRUE)
    ELSE s

\* 0.5 m, in half metres
TruncateDepth == 1

Truncation(s, name, value) ==
    IF /\ \/ name = "surface_only" /\ Has(s, "drift_model") /\ Has(s, "o")
          \/ name = "drift_model" /\ Has(s, "surface_only") /\ Has(s, "o")
    THEN IF s.a.surface_only = Some(TRUE)
         THEN IF s.a.drift_model # "Leeway"
              THEN set_config(Log(s, "Truncating model output below 0.5 m."),
                              "drift:truncate_ocean_model_below_m", Some(TruncateDepth))
              ELSE s
         ELSE IF s.a.drift_model # "Leeway"
         THEN TheOne({IF s1.oc["drift:truncate_ocean_model_below_m"] # None
                      THEN set_config(Log(s1, "Un-truncating model output below 0.5 m."),
                                      "drift:truncate_ocean_model_below_m", None)
                      ELSE s1 : s1 \in {update_config(s)}})
         ELSE s
    ELSE s

\* o.disable_vertical_motion()
disable_vertical_motion(s) ==
    TheOne({IF s1.exc # "" THEN s1 ELSE set_config(s1, "drift:vertical_mixing", FALSE) :
            s1 \in {set_config(s, "drift:vertical_advection", FALSE)}})

Do3DFlags(s, name, value) ==
    IF name = "do3D"
    THEN IF value = FALSE /\ Has(s, "drift_model") /\ s.a.drift_model # "Leeway"
         THEN disable_vertical_motion(s)
         ELSE IF value = TRUE THEN set_config(s, "drift:vertical_advection", TRUE)
         ELSE s
    ELSE s

\* if self.<k> != self.show_config(key=<k>)["default"]: self.<k> = <default>
ResetToDefault(s, k, msg) ==
    IF s.exc = "" /\ Has(s, k)
    THEN TheOne({IF s1.a[k] # ShowDefault(k)
                 THEN SetAttr(update_config(Log(s1, msg)), k, ShowDefault(k))
                 ELSE s1 : s1 \in {update_config(s)}})
    ELSE s

VerticalMixingResets(s, name, value) ==
    IF Has(s, "vertical_mixing") /\ ~s.a.vertical_mixing
    THEN TheOne({ResetToDefault(s2, "mixed_layer_depth", "mixed_layer_depth is not used") :
                 s2 \in {ResetToDefault(s1, "diffusivitymodel",
                                        "diffusivitymodel is not used") :
                         s1 \in {ResetToDefault(s, "vertical_mixing_timestep",
                                                "vertical_mixing_timestep is not used")}}})
    ELSE s

LeewayResets(s, name, value) ==
    IF s.a.drift_model = "Leeway"
    THEN TheOne({IF s2.exc = "" /\ Has(s2, "stokes_drift") /\ s2.a.stokes_drift
                 THEN SetAttr(Log(s2, "stokes_drift cannot be used with Leeway"),
                              "stokes_drift", FALSE)
                 ELSE s2 :
                 s2 \in {ResetToDefault(s1, "wind_drift_depth",
                                        "wind_drift_depth cannot be used with Leeway") :
                         s1 \in {ResetToDefault(s, "wind_drift_factor",
                                                "wind_drift_factor cannot be used with Leeway")}}})
    ELSE s

SetAttrModelSteps ==
    <<"drift_model", "write", "ocean_model", "horizontal_diffusivity", "stokes_drift",
      "truncate", "do3D", "vertical_mixing", "leeway", "update">>

SetAttrModelStep(step, s, name, value) ==
    IF s.exc # "" THEN s
    ELSE CASE step = "drift_model" -> CheckDriftModelOverwrite(s, name, value)
           [] step = "write" -> WriteModelValue(s, name, value)
           [] step = "ocean_model" -> OceanModelDiffusivity(s, name, value)
           [] step = "horizontal_diffusivity" -> DiffusivityNone(s, name, value)
           [] step = "stokes_drift" -> StokesDriftFlag(s, name, value)
           [] step = "truncate" -> Truncation(s, name, value)
           [] step = "do3D" -> Do3DFlags(s, name, value)
           [] step = "vertical_mixing" -> VerticalMixingResets(s, name, value)
           [] step = "leeway" -> LeewayResets(s, name, value)
           [] step = "update" -> update_config(s)

RECURSIVE SetAttrModelFrom(_, _, _, _, _)
SetAttrModelFrom(s, lo, hi, name, value) ==
    IF lo = hi THEN SetAttrModelStep(SetAttrModelSteps[lo], s, name, value)
    ELSE TheOne({SetAttrModelFrom(s1, (lo + hi) \div 2 + 1, hi, name, value) :
                 s1 \in {SetAttrModelFrom(s, lo, (lo + hi) \div 2, name, value)}})

SetAttrModel(s, name, value) ==
    TheOne({SetAttrModelFrom(s0, 1, Len(SetAttrModelSteps), name, value) : s0 \in {s}})

----------------------------------------------------------------------------
(* Construction, attribute assignment and add_reader *)

NewObject ==
    [a |-> Empty, ptm |-> Empty, mod |-> Empty, oc |-> Empty,
     reader |-> NoReader, log |-> {}, exc |-> "", depth |-> 0, deepest |-> 0]

Arg(kw, k, defaults) == IF k \in DOMAIN kw THEN kw[k] ELSE defaults[k]

\* for key in sig.parameters.keys(): self.__setattr__(key, locals()[key])
\* (parameters lo..hi in order: the first half is completed before the second starts)
RECURSIVE SetAllFrom(_, _, _, _, _, _)
SetAllFrom(s, params, lo, hi, kw, defaults) ==
    IF lo = hi THEN SetAttr(s, params[lo], Arg(kw, params[lo], defaults))
    ELSE TheOne({SetAllFrom(s1, params, (lo + hi) \div 2 + 1, hi, kw, defaults) :
                 s1 \in {SetAllFrom(s, params, lo, (lo + hi) \div 2, kw, defaults)}})

SetAll(s, params, kw, defaults) ==
    TheOne({SetAllFrom(s0, params, 1, Len(params), kw, defaults) : s0 \in {s}})

Range(seq) == {seq[i] : i \in 1..Len(seq)}
UnknownKw(kw) == DOMAIN kw \ (Range(ManagerParams) \cup Range(ModelParams))

\* ParticleTrackingManager.__init__(model, **kw)
ParticleTrackingManager(kw) ==
    SetAttr(
      SetAttr(
        SetAttr(
          SetAttr(
            SetAttr(
              SetAll(SetAttr(SetAttr(NewObject, "config_ptm", "dict"),
                             "model", "opendrift"),
                     ManagerParams, kw, ManagerDefaults),
              "kw", UnknownKw(kw)),
            "has_added_reader", FALSE),
          "has_run_seeding", FALSE),
        "has_run", FALSE),
      "kw", UnknownKw(kw))

\* if len(self.kw) > 0: raise KeyError
CheckKw(s) == IF s.a.kw # {} THEN Exc(s, "KeyError") ELSE s

\* CreateEngine with the last branch creating an OceanDrift object instead of raising
CreateEngine_else_OceanDrift(s) ==
    SetAttr([s EXCEPT !.oc = EngineConfig(s.a.drift_model)], "o",
            IF s.a.drift_model \in DriftModels THEN s.a.drift_model ELSE "OceanDrift")

\* o = <drift model class>(...); self.o = o
CreateEngine(s) ==
    IF s.a.drift_model \in DriftModels
    THEN SetAttr([s EXCEPT !.oc = EngineConfig(s.a.drift_model)], "o", s.a.drift_model)
    ELSE Exc(s, "ValueError")

OpenDriftModelSteps == <<"super", "kw", "drift_model", "o", "config_model", "parameters">>

OpenDriftModelStep(step, s, kw) ==
    IF s.exc # "" THEN s
    ELSE CASE step = "super" -> ParticleTrackingManager(kw)
           [] step = "kw" -> CheckKw(s)
           [] step = "drift_model" ->
                SetAttr(s, "drift_model", Arg(kw, "drift_model", ModelDefaults))
           [] step = "o" -> CreateEngine(s)
           [] step = "config_model" -> SetAttr(s, "config_model", "dict")
           [] step = "parameters" -> SetAll(s, ModelParams, kw, ModelDefaults)

RECURSIVE OpenDriftModelFrom(_, _, _, _)
OpenDriftModelFrom(s, lo, hi, kw) ==
    IF lo = hi THEN OpenDriftModelStep(OpenDriftModelSteps[lo], s, kw)
    ELSE TheOne({OpenDriftModelFrom(s1, (lo + hi) \div 2 + 1, hi, kw) :
                 s1 \in {OpenDriftModelFrom(s, lo, (lo + hi) \div 2, kw)}})

\* OpenDriftModel.__init__(**kw)
OpenDriftModel(kw) == OpenDriftModelFrom(NewObject, 1, Len(OpenDriftModelSteps), kw)

\* run_add_reader once self.ocean_model is settled, the reader opened being rd
OpenReader(s, loc, lon0_360, rd) ==
    IF s.exc # "" THEN s
    ELSE IF s.a.ocean_model = None THEN Exc(s, "AttributeError")
    ELSE IF Upper(Val(s.a.ocean_model)) = "TEST" THEN s
    ELSE IF s.a.ocean_model \notin {Some("NWGOA"), Some("CIOFS")} /\ loc = None
    THEN Exc(s, "ValueError")
    ELSE SetAttr(SetAttr([s EXCEPT !.reader = rd], "reader", "Reader"),
                 "oceanmodel_lon0_360",
                 IF s.a.ocean_model = Some("NWGOA") THEN TRUE
                 ELSE IF s.a.ocean_model = Some("CIOFS") THEN FALSE ELSE lon0_360)

\* run_add_reader(loc=loc, oceanmodel_lon0_360=lon0_360)
run_add_reader(s, loc, lon0_360, rd) ==
    TheOne({OpenReader(s1, loc, lon0_360, rd) :
            s1 \in {IF loc # None /\ s.a.ocean_model = None
                    THEN SetAttr(s, "ocean_model", Some("user_input")) ELSE s}})

\* add_reader(**kwargs)
add_reader(s, loc, lon0_360, rd) ==
    SetAttr(run_add_reader(s, loc, lon0_360, rd), "has_added_reader", TRUE)

\* run_seed(): o.seed_elements(lon=self.lon, lat=self.lat, ...) or
\* o.seed_from_geojson(...).  What the engine does with a null lon or lat is
\* the engine's: accepted says whether it takes them or raises
run_seed(s, accepted) ==
    IF s.a.seed_flag = "elements"
    THEN IF (s.a.lon = None \/ s.a.lat = None) /\ ~accepted
         THEN Exc(s, "TypeError") ELSE s
    ELSE IF s.a.seed_flag = "geojson" THEN s
    ELSE Exc(s, "ValueError")

\* seed(), after the reader it may add: self.run_seed(); self.has_run_seeding = True
SeedAfterReader(s, accepted) ==
    IF s.exc # "" THEN s
    ELSE IF s.a.start_time = None THEN Exc(s, "KeyError")
    ELSE TheOne({IF s1.exc # "" THEN s1 ELSE SetAttr(s1, "has_run_seeding", TRUE) :
                 s1 \in {run_seed(s, accepted)}})

\* the checks seed() starts with: the exception raised, "" when none is
SeedChecks(s) ==
    IF s.a.seed_flag = "elements" /\ s.a.lon = None /\ s.a.lat = None
    THEN "KeyError"
    ELSE IF s.a.seed_flag = "geojson" /\ s.a.geojson = None
    THEN "KeyError"
    ELSE IF ~s.a.seed_seafloor /\ s.a.z = None
    THEN "AssertionError"
    ELSE ""

\* if self.ocean_model is not None and not self.has_added_reader: self.add_reader()
SeedAddsReader(s) ==
    SeedChecks(s) = "" /\ s.a.ocean_model # None /\ ~s.a.has_added_reader

\* seed(), called without arguments; rd is what the reader reports if seed adds it
seed(s, rd, accepted) ==
    IF SeedChecks(s) # "" THEN Exc(s, SeedChecks(s))
    ELSE TheOne({SeedAfterReader(s1, accepted) :
                 s1 \in {IF SeedAddsReader(s)
                         THEN add_reader(s, None, FALSE, rd) ELSE s}})

\* the timedelta between two timestamps, in minutes
Between(t1, t2) == Abs(t1[2] - t2[2])
\* a timestamp plus a timedelta
Plus(t, d) == <<"Timestamp", t[2] + d>>
\* self.duration = abs(self.end_time - self.start_time)
SetDuration(s) ==
    SetAttr(s, "duration", Some(Between(Val(s.a.end_time), Val(s.a.start_time))))
\* self.steps = self.duration / datetime.timedelta(seconds=self.time_step): a
\* float; the durations met are multiples of time_step, for which it equals the
\* integer quotient
SetSteps(s) == SetAttr(s, "steps", Some(Val(s.a.duration) \div s.a.time_step))
\* self.end_time = self.start_time + timedir * d
SetEndTime(s, d) ==
    SetAttr(s, "end_time",
            Some(Plus(Val(s.a.start_time), (IF s.a.run_forward THEN 1 ELSE -1) * d)))

\* run() up to the call of run_drifters(): the time window is resolved
ResolveTimes(s) ==
    IF s.a.steps # None
    THEN TheOne({SetDuration(s1) :
                 s1 \in {SetEndTime(s, Val(s.a.steps) * s.a.time_step)}})
    ELSE IF s.a.duration # None
    THEN TheOne({SetSteps(s1) : s1 \in {SetEndTime(s, Val(s.a.duration))}})
    ELSE TheOne({SetSteps(s1) : s1 \in {SetDuration(s)}})

\* run()
run(s) ==
    IF ~s.a.has_run_seeding THEN Exc(s, "KeyError")
    ELSE IF s.a.steps = None /\ s.a.duration = None /\ s.a.end_time = None
    THEN Exc(s, "AssertionError")
    ELSE TheOne({IF s1.exc # "" THEN s1 ELSE SetAttr(s1, "has_run", TRUE) :
                 s1 \in {ResolveTimes(s)}})

\* a stage of run_all(): o is the object after it, t the calls made so far
Staged(o, t) == [o |-> o, t |-> t]

\* if not self.has_added_reader: self.add_reader()
StageAddReader(r, rd) ==
    IF r.o.exc # "" THEN r
    ELSE IF ~r.o.a.has_added_reader
    THEN Staged(add_reader(r.o, None, FALSE, rd), r.t \o <<"add_reader">>)
    ELSE r

\* the calls a seed() on s makes: itself, and add_reader() when it adds the reader
SeedCalls(s) == <<"seed">> \o (IF SeedAddsReader(s) THEN <<"add_reader">> ELSE <<>>)

\* the stage of seed() without the test of has_run_seeding
StageSeed_unguarded(r, rd, accepted) ==
    IF r.o.exc # "" THEN r
    ELSE Staged(seed(r.o, rd, accepted), r.t \o SeedCalls(r.o))

\* if not self.has_run_seeding: self.seed()
StageSeed(r, rd, accepted) ==
    IF r.o.exc # "" THEN r
    ELSE IF ~r.o.a.has_run_seeding
    THEN Staged(seed(r.o, rd, accepted), r.t \o SeedCalls(r.o))
    ELSE r

\* if not self.has_run: self.run()
StageRun(r) ==
    IF r.o.exc # "" THEN r
    ELSE IF ~r.o.a.has_run THEN Staged(run(r.o), r.t \o <<"run">>)
    ELSE r

\* run_all(): the object after it and the calls it made
run_all(s, rd, accepted) ==
    TheOne({StageRun(r2) :
            r2 \in {StageSeed(r1, rd, accepted) :
                    r1 \in {StageAddReader(Staged(s, <<>>), rd)}}})

\* the object at the start of a call
Begin(s) == [s EXCEPT !.log = {}, !.exc = "", !.deepest = 0]

\* no configuration has been queried yet
NotShown == [called |-> FALSE]
\* no OpenDriftModel object of opendrift.py has been constructed yet
NotBuilt == [built |-> FALSE]

Init ==
    /\ kwargs = Empty
    /\ config = NoConfig
    /\ status = "none"
    /\ error = ""
    /\ first = NoConfig
    /\ phase = "new"
    /\ m = NoObject
    /\ raised = ""
    /\ calls = 0
    /\ shown = NotShown
    /\ od = NotBuilt
    /\ trace = <<>>

\* m = TheManagerConfig(**kw)
Call(kw) ==
    LET r == TheManagerConfig(kw)
    IN  /\ kwargs' = kw
        /\ config' = IF r.ok THEN r.self ELSE NoConfig
        /\ status' = IF r.ok THEN "ok" ELSE "error"
        /\ error' = r.err

Construct ==
    /\ phase = "new"
    /\ \E kw \in TimeKwargs \cup SeedKwargs : Call(kw)
    /\ first' = config'
    /\ phase' = "constructed"
    /\ UNCHANGED <<m, raised, calls, shown, od, trace>>

\* TheManagerConfig(start_time=m.start_time, end_time=m.end_time,
\*                  duration=m.duration, steps=m.steps, <the other arguments as before>)
Reresolve ==
    /\ phase = "constructed"
    /\ status = "ok"
    /\ Call([f \in TimeFields |-> config[f]] @@ kwargs)
    /\ first' = first
    /\ phase' = "reresolved"
    /\ UNCHANGED <<m, raised, calls, shown, od, trace>>

Next == Construct \/ Reresolve

Spec == Init /\ [][Next]_vars
----------------------------------------------------------------------------
(* The calls made on OpenDriftModel *)

LonValues == {None, Some(-151), Some(10), Some(181)}
LatValues == {None, Some(58), Some(91)}
OceanModelValues ==
    {None, Some("NWGOA"), Some("CIOFS"), Some("CIOFS_now"), Some("test")}
StartTimeValues == {None, Some(<<"str", 0>>), Some(<<"datetime", 60>>), Some(<<"int", 0>>)}

\* what a reader reports: a grid on 0..360 and one on -180..180
Readers ==
    {[lon_min |-> 195, lon_max |-> 215, lat_min |-> 50, lat_max |-> 65, start_time |-> 0],
     [lon_min |-> -165, lon_max |-> -145, lat_min |-> 50, lat_max |-> 65, start_time |-> 30]}

\* constructor calls: one group of keywords at a time
NewKwargs ==
    {a @@ b @@ c : a \in Opt("lon", LonValues \ {None}),
                   b \in Opt("lat", LatValues \ {None}),
                   c \in Opt("ocean_model", OceanModelValues \ {None})}
      \cup {a @@ b : a \in Opt("start_time", StartTimeValues \ {None}),
                     b \in Opt("ocean_model", {Some("NWGOA"), Some("test")})}
      \cup {a @@ b : a \in Opt("drift_model", DriftModels \cup {"Unknown"}),
                     b \in Opt("unknown", {"test"})}

\* m = OpenDriftModel(**kw)
NewFrom(Kwargs) ==
    /\ m = NoObject
    /\ raised = ""
    /\ \E kw \in Kwargs : \E s \in {OpenDriftModel(kw)} :
         /\ kwargs' = kw
         /\ m' = IF s.exc = "" THEN s ELSE NoObject
         /\ raised' = s.exc
    /\ calls' = 0
    /\ UNCHANGED <<config, status, error, first, phase, shown, od, trace>>

New == NewFrom(NewKwargs)

\* m.<name> = value, as one of at most max calls
AssignWithin(max, name, value) ==
    /\ m # NoObject
    /\ calls < max
    /\ m' = SetAttr(Begin(m), name, value)
    /\ raised' = m'.exc
    /\ calls' = calls + 1
    /\ UNCHANGED <<kwargs, config, status, error, first, phase, shown, od, trace>>

\* m.<name> = value
Assign(name, value) == AssignWithin(MaxCalls, name, value)

SetLon == \E v \in LonValues : Assign("lon", v)
SetLat == \E v \in LatValues : Assign("lat", v)
SetOceanModel == \E v \in OceanModelValues : Assign("ocean_model", v)
SetStartTime == \E v \in StartTimeValues : Assign("start_time", v)

\* m.add_reader(), m.add_reader(loc=...), m.add_reader(loc=..., oceanmodel_lon0_360=True)
AddReader ==
    /\ m # NoObject
    /\ calls < MaxCalls
    /\ \E loc \in {None, Some("file.nc")}, lon0_360 \in BOOLEAN, rd \in Readers :
         m' = add_reader(Begin(m), loc, lon0_360, rd)
    /\ raised' = m'.exc
    /\ calls' = calls + 1
    /\ UNCHANGED <<kwargs, config, status, error, first, phase, shown, od, trace>>

NextManager == New \/ SetLon \/ SetLat \/ SetOceanModel \/ SetStartTime \/ AddReader

SpecManager == Init /\ [][NextManager]_vars

----------------------------------------------------------------------------
(* The calls that exercise the cascade among surface_only, do3D, z,        *)
(* vertical_mixing and seed_seafloor                                       *)

SurfaceOnlyValues == {None, Some(TRUE), Some(FALSE)}
ZValues == {None, Some(0), Some(-10)}

CascadeKwargs ==
    {a @@ b @@ c @@ d @@ e :
        a \in Opt("surface_only", {Some(TRUE)}),
        b \in Opt("do3D", {TRUE}),
        c \in Opt("z", {None, Some(-10)}),
        d \in Opt("vertical_mixing", {TRUE}),
        e \in Opt("seed_seafloor", {TRUE})}
      \cup {("drift_model" :> "Leeway") @@ a @@ b :
               a \in Opt("surface_only", {Some(TRUE)}),
               b \in Opt("vertical_mixing", {TRUE})}

NewCascade == NewFrom(CascadeKwargs)
SetSurfaceOnly == \E v \in SurfaceOnlyValues : Assign("surface_only", v)
SetDo3D == \E v \in BOOLEAN : Assign("do3D", v)
SetZ == \E v \in ZValues : Assign("z", v)
SetVerticalMixing == \E v \in BOOLEAN : Assign("vertical_mixing", v)
SetSeedSeafloor == \E v \in BOOLEAN : Assign("seed_seafloor", v)

NextCascade ==
    NewCascade \/ SetSurfaceOnly \/ SetDo3D \/ SetZ \/ SetVerticalMixing \/ SetSeedSeafloor

SpecCascade == Init /\ [][NextCascade]_vars

----------------------------------------------------------------------------
(* The calls that exercise the drift model variant and the fields it pins *)

\* wind_drift_factor in 1/100, wind_drift_depth in 1/10 m: the default and another value
WindDriftFactorValues == {ModelDefaults.wind_drift_factor, 5}
WindDriftDepthValues == {ModelDefaults.wind_drift_depth, 3}

VariantKwargs ==
    {a @@ b @@ c :
        a \in Opt("drift_model", {"LarvalFish", "OpenOil", "Leeway", "Unknown"}),
        b \in Opt("do3D", BOOLEAN),
        c \in Opt("vertical_mixing", BOOLEAN)}
      \cup {a @@ b @@ c @@ d :
               a \in Opt("drift_model", {"LarvalFish", "OpenOil", "Leeway", "Unknown"}),
               b \in Opt("stokes_drift", BOOLEAN),
               c \in Opt("wind_drift_factor", {5}),
               d \in Opt("wind_drift_depth", {3})}

NewVariant == NewFrom(VariantKwargs)
SetDriftModel == \E v \in DriftModels \cup {"Drift"} : Assign("drift_model", v)
SetStokesDrift == \E v \in BOOLEAN : Assign("stokes_drift", v)
SetWindDriftFactor == \E v \in WindDriftFactorValues : Assign("wind_drift_factor", v)
SetWindDriftDepth == \E v \in WindDriftDepthValues : Assign("wind_drift_depth", v)

NextVariant ==
    NewVariant \/ SetDriftModel \/ SetStokesDrift \/ SetWindDriftFactor \/ SetWindDriftDepth

SpecVariant == Init /\ [][NextVariant]_vars

-----------------------------------------------------------------------------
(* The calls that exercise the merged configuration o._config *)

\* the semantic names with an od_mapping, among the keys of the two schemas
MappedKeys == (PtmKeys \cup ModelKeys) \cap DOMAIN OdMapping
\* the engine-native keys written to, and the values written
EngineKeys == {OdMapping["vertical_mixing"], OdMapping["stokes_drift"]}

MergeKwargs ==
    {a @@ b @@ c @@ d :
        a \in Opt("drift_model", {"Leeway"}),
        b \in Opt("do3D", {TRUE}),
        c \in Opt("vertical_mixing", {TRUE}),
        d \in Opt("stokes_drift", {TRUE})}

NewMerge == NewFrom(MergeKwargs)

\* m.o.set_config(key, value): a write to the engine-native key
EngineSetConfig ==
    /\ m # NoObject
    /\ calls < MaxCalls
    /\ \E key \in EngineKeys : \E value \in BOOLEAN :
         m' = set_config(Begin(m), key, value)
    /\ raised' = m'.exc
    /\ calls' = calls + 1
    /\ UNCHANGED <<kwargs, config, status, error, first, phase, shown, od, trace>>

\* m.show_config(): merges, then returns the merged configuration
ShowConfig ==
    /\ m # NoObject
    /\ calls < MaxCalls
    /\ m' = update_config(Begin(m))
    /\ raised' = m'.exc
    /\ calls' = calls + 1
    /\ UNCHANGED <<kwargs, config, status, error, first, phase, shown, od, trace>>

NextMerge ==
    NewMerge \/ SetDo3D \/ SetVerticalMixing \/ SetStokesDrift \/ EngineSetConfig
        \/ ShowConfig

SpecMerge == Init /\ [][NextMerge]_vars

----------------------------------------------------------------------------
(* The calls that take the manager through seed() and run()                 *)

\* the calls made on one object here: seed, run and two more
MaxRunCalls == 3

RunKwargs ==
    {[lon |-> Some(-151), lat |-> Some(58)] @@ a @@ b :
        a \in Opt("start_time", {Some(<<"str", 0>>)}),
        b \in {Empty, [run_forward |-> FALSE], [steps |-> None],
               [steps |-> None, duration |-> Some(120)],
               [steps |-> None, end_time |-> Some(<<"datetime", 60>>)]}}

NewRun == NewFrom(RunKwargs)

SetLonRun == \E v \in {Some(10), Some(181)} : AssignWithin(MaxRunCalls, "lon", v)
SetStepsRun == \E v \in {None, Some(1)} : AssignWithin(MaxRunCalls, "steps", v)

\* m.seed()
Seed ==
    /\ m # NoObject
    /\ calls < MaxRunCalls
    /\ \E rd \in Readers, accepted \in BOOLEAN : m' = seed(Begin(m), rd, accepted)
    /\ raised' = m'.exc
    /\ calls' = calls + 1
    /\ UNCHANGED <<kwargs, config, status, error, first, phase, shown, od, trace>>

\* m.run()
Run ==
    /\ m # NoObject
    /\ calls < MaxRunCalls
    /\ m' = run(Begin(m))
    /\ raised' = m'.exc
    /\ calls' = calls + 1
    /\ UNCHANGED <<kwargs, config, status, error, first, phase, shown, od, trace>>

NextRun == NewRun \/ SetLonRun \/ SetStepsRun \/ Seed \/ Run

SpecRun == Init /\ [][NextRun]_vars

----------------------------------------------------------------------------
(* Filtered queries of the merged configuration: get_configspec,            *)
(* show_config_model.  A key is the sequence of its characters.             *)

\* k.startswith(p)
startswith(k, p) == Len(p) <= Len(k) /\ SubSeq(k, 1, Len(p)) = p
\* sub in k
contains(k, sub) ==
    \E i \in 1..(Len(k) - Len(sub) + 1) : SubSeq(k, i, i + Len(sub) - 1) = sub

\* f restricted to the keys in S
Restrict(f, S) == [k \in S |-> f[k]]

\* a level argument: None, a scalar, or a list (given as the set of its items)
Scalar(x) == <<"scalar", x>>
List(S) == <<"list", S>>
\* if not isinstance(level, list) and level is not None: level = [level]
AsList(level) == IF level = None \/ level[1] = "list" THEN level ELSE List({level[2]})

\* get_configspec with the excludestring test left out
get_configspec_no_exclude(cfg, prefix, substring, excludestring, level, ptm_level) ==
    LET levels == AsList(level)
        ptm_levels == AsList(ptm_level)
        c0 == Restrict(cfg, {k \in DOMAIN cfg :
                               startswith(k, prefix) /\ contains(k, substring)})
        c1 == IF levels # None
              THEN Restrict(c0, {k \in DOMAIN c0 :
                                   c0[k].level # None /\ Val(c0[k].level) \in levels[2]})
              ELSE c0
    IN  IF ptm_levels # None
        THEN Restrict(c1, {k \in DOMAIN c1 :
                             c1[k].ptm_level # None
                               /\ Val(c1[k].ptm_level) \in ptm_levels[2]})
        ELSE c1

get_configspec(cfg, prefix, substring, excludestring, level, ptm_level) ==
    LET levels == AsList(level)
        ptm_levels == AsList(ptm_level)
        c0 == Restrict(cfg, {k \in DOMAIN cfg :
                               /\ startswith(k, prefix)
                               /\ contains(k, substring)
                               /\ ~contains(k, excludestring)})
        c1 == IF levels # None
              THEN Restrict(c0, {k \in DOMAIN c0 :
                                   c0[k].level # None /\ Val(c0[k].level) \in levels[2]})
              ELSE c0
    IN  IF ptm_levels # None
        THEN Restrict(c1, {k \in DOMAIN c1 :
                             c1[k].ptm_level # None
                               /\ Val(c1[k].ptm_level) \in ptm_levels[2]})
        ELSE c1

\* show_config_model(key, prefix, level, ptm_level, substring, excludestring)
show_config_model(cfg, key, prefix, level, ptm_level, substring, excludestring) ==
    LET output == get_configspec(cfg, IF key # None THEN Val(key) ELSE prefix,
                                 substring, excludestring, level, ptm_level)
    IN  IF key # None /\ Val(key) \in DOMAIN output THEN output[Val(key)] ELSE output

\* the keys of a small merged configuration, and the metadata an entry carries:
\* "level" and "ptm_level" are None where the entry has no such item
ConfigKeys == {<<"a">>, <<"a", "b">>, <<"a", ":", "b">>, <<"b", ":", "a">>}
Metadatas ==
    {[level |-> l, ptm_level |-> p] : l \in {None, Some(1)}, p \in {None, Some(2)}}
      \cup {[level |-> Some(2), ptm_level |-> Some(1)]}
Configs ==
    {c \in [ConfigKeys -> Metadatas] :
        /\ c[<<"a">>].ptm_level = None
        /\ c[<<"b", ":", "a">>] = [level |-> Some(2), ptm_level |-> Some(1)]
        /\ c[<<"a", "b">>].ptm_level = None}
KeyArgs == {None, Some(<<"a">>), Some(<<"a", ":", "b">>), Some(<<"b">>)}
Prefixes == {<<>>, <<"a">>, <<"b", ":">>}
Substrings == {<<>>, <<":">>, <<"a", "b">>}
\* the default "excludestring" occurs in no key, as <<"x">> here
Excludestrings == {<<"x">>, <<"b">>}
LevelArgs == {None, Scalar(1), List({1, 2}), List({2})}
PtmLevelArgs == {None, Scalar(2), List({1, 2})}

\* one query, of a configuration and arguments drawn from the sets above
ShowConfigModel ==
    /\ ~shown.called
    /\ \E cfg \in Configs, key \in KeyArgs, prefix \in Prefixes,
          substring \in Substrings, excludestring \in Excludestrings,
          level \in LevelArgs, ptm_level \in PtmLevelArgs :
         shown' = [called |-> TRUE, call |-> "show_config_model", cfg |-> cfg,
                   key |-> key, prefix |-> prefix,
                   substring |-> substring, excludestring |-> excludestring,
                   level |-> level, ptm_level |-> ptm_level,
                   result |-> show_config_model(cfg, key, prefix, level, ptm_level,
                                                substring, excludestring)]
    /\ UNCHANGED <<kwargs, config, status, error, first, phase, m, raised, calls, od, trace>>

(* drift_model_config (opendrift.py).  The engine's keys are the sequences  *)
(* of their tokens: "seed:z" is <<"seed", ":", "z">>.  An entry carries,    *)
(* besides "level" and "ptm_level", has_value ("value" in value_dict), the  *)
(* value (None for null) and od_mapping ("od_mapping" in value_dict).       *)

SeedZ == <<"seed", ":", "z">>
TruncateBelow == <<"drift", ":", "truncate_ocean_model_below_m">>
VerticalAdvection == <<"drift", ":", "vertical_advection">>
UseTabularised == <<"drift", ":", "use_tabularised_stokes_drift">>
\* the order of the items of self._config
KeyOrder == <<SeedZ, TruncateBelow, VerticalAdvection, <<"lon">>, <<"z">> >>
extra_keys == <<VerticalAdvection, TruncateBelow, UseTabularised>>
\* excludestring="excludestring"
DefaultExclude == <<"excludestring">>

\* [f(x) for x in xs if keep(x)], with keep given as the set of x kept
ListOf(xs, Kept) ==
    LET keep(x) == x \in Kept IN SelectSeq(xs, keep)
\* the (key, value_dict["value"]) pairs of the keys listed
Pairs(cfg, ks) == [i \in 1..Len(ks) |-> <<ks[i], cfg[ks[i]].value>>]

\* "value" in self.show_config(key=key)
ValueInShown(cfg, key) ==
    LET output == get_configspec(cfg, key, <<>>, DefaultExclude, None, None)
    IN  IF key \in DOMAIN output THEN output[key].has_value
        ELSE <<"value">> \in DOMAIN output

drift_model_config(cfg, ptm_level, prefix) ==
    LET out1 == get_configspec(cfg, prefix, <<":">>, DefaultExclude,
                               List({1, 2, 3}), ptm_level)
        out2 == get_configspec(cfg, prefix, <<>>, DefaultExclude, None, ptm_level)
        outlist == ListOf(KeyOrder, {k \in DOMAIN out1 :
                                       out1[k].has_value /\ out1[k].value # None})
        outlist2 == ListOf(KeyOrder, {k \in DOMAIN out2 :
                                        /\ ~out2[k].od_mapping
                                        /\ out2[k].has_value
                                        /\ out2[k].value # None})
        extras == ListOf(extra_keys, {k \in {extra_keys[i] : i \in DOMAIN extra_keys} :
                                        ValueInShown(cfg, k)})
    IN  Pairs(cfg, outlist \o extras \o outlist2)

\* an entry of the merged configuration
Entry(level, ptm_level, value, od_mapping) ==
    [level |-> level, ptm_level |-> ptm_level, has_value |-> TRUE, value |-> value,
     od_mapping |-> od_mapping]
\* the merged configurations: seed:z is the engine's entry of the manager's z,
\* the drift: keys are the engine's own, lon and z are the manager's
DriftConfigs ==
    {[k \in {KeyOrder[i] : i \in DOMAIN KeyOrder} |->
        CASE k = SeedZ -> Entry(Some(2), Some(p), zv, TRUE)
          [] k = TruncateBelow -> Entry(Some(3), None, t, FALSE)
          [] k = VerticalAdvection -> Entry(Some(3), None, Some(va), FALSE)
          [] k = <<"lon">> -> Entry(None, Some(1), lon, FALSE)
          [] OTHER -> Entry(None, Some(p), zv, TRUE)] :
       p \in {1, 2}, zv \in {None, Some(0)}, t \in {None, Some(TruncateDepth)},
       va \in BOOLEAN, lon \in {None, Some(0)}}
DriftPtmLevels == {List({1, 2, 3}), Scalar(1), List({2})}
DriftPrefixes == {<<>>, <<"seed">>, <<"drift">>}

\* one call of drift_model_config
DriftModelConfig ==
    /\ ~shown.called
    /\ \E cfg \in DriftConfigs, ptm_level \in DriftPtmLevels, prefix \in DriftPrefixes :
         shown' = [called |-> TRUE, call |-> "drift_model_config", cfg |-> cfg,
                   ptm_level |-> ptm_level, prefix |-> prefix,
                   result |-> drift_model_config(cfg, ptm_level, prefix)]
    /\ UNCHANGED <<kwargs, config, status, error, first, phase, m, raised, calls, od, trace>>

NextShow == ShowConfigModel \/ DriftModelConfig

SpecShow == Init /\ [][NextShow]_vars

----------------------------------------------------------------------------
(* OpenDriftModel of models/opendrift/opendrift.py: the object that keeps    *)
(* its fields in self.config and its lifecycle flags in self.state.  od is  *)
(* a record: the fields of self.config the lifecycle reads, the three flags *)
(* of self.state, and exc, the exception the latest call raised.            *)

\* _KNOWN_MODELS, by the branches of add_reader
KnownModels == {"NWGOA", "CIOFS", "CIOFSOP", "CIOFSFRESH"}

OdRaise(o, e) == [o EXCEPT !.exc = e]

\* OpenDriftModel.__init__(**kwargs): _create_opendrift_model_object raises for
\* a drift_model that is none of the four
OdInit(kw) ==
    IF kw.drift_model \notin DriftModels
    THEN [built |-> FALSE, exc |-> "ValueError: Drifter model is not recognized."]
    ELSE [built |-> TRUE, drift_model |-> kw.drift_model,
          ocean_model |-> kw.ocean_model, ocean_model_local |-> kw.ocean_model_local,
          start_time |-> kw.start_time, end_time |-> kw.end_time,
          seed_flag |-> kw.seed_flag,
          has_added_reader |-> FALSE, has_run_seeding |-> FALSE, has_run |-> FALSE,
          exc |-> ""]

\* add_reader(ds): ds says whether a Dataset is passed, left is the number of
\* model outputs the reader has left in the simulation's time window
od_add_reader(o0, ds, left) ==
    LET o == [o0 EXCEPT !.exc = ""] IN
    IF o.ocean_model \notin KnownModels /\ o.ocean_model # "test" /\ ~ds
    THEN OdRaise(o, "ValueError: ocean_model must be a known model or user must input a Dataset.")
    ELSE LET o1 == IF ds THEN [o EXCEPT !.ocean_model = "user_input"] ELSE o IN
         IF o1.ocean_model = "test"
         THEN [o1 EXCEPT !.has_added_reader = TRUE]
         ELSE IF o1.ocean_model # "None" \/ ds
         THEN IF o1.ocean_model \in KnownModels /\ o1.ocean_model_local
                   /\ ~o1.start_time
              THEN OdRaise(o1, "ValueError: Need to set start_time ahead of time to add local reader.")
              ELSE LET o2 == [o1 EXCEPT !.start_time = TRUE] IN
                   IF ~o2.end_time
                   THEN OdRaise(o2, "ValueError: start_time and end_time must be set to narrow model output to simulation time")
                   ELSE IF left = 0
                   THEN OdRaise(o2, "ValueError: No model output left for simulation time.")
                   ELSE IF left = 1
                   THEN OdRaise(o2, "ValueError: Only 1 model output left for simulation time.")
                   ELSE [o2 EXCEPT !.has_added_reader = TRUE]
         ELSE OdRaise(o1, "ValueError: reader did not set an ocean_model")

\* seed() that does not ask for the reader
od_seed_unguarded(o0) ==
    LET o == [o0 EXCEPT !.exc = ""] IN
    IF o.seed_flag \in {"elements", "geojson"}
    THEN [o EXCEPT !.has_run_seeding = TRUE]
    ELSE OdRaise(o, "ValueError: seed_flag not recognized.")

\* seed()
od_seed(o0) ==
    LET o == [o0 EXCEPT !.exc = ""] IN
    IF ~o.has_added_reader
    THEN OdRaise(o, "ValueError: first add reader with manager.add_reader.")
    ELSE IF o.seed_flag \in {"elements", "geojson"}
    THEN [o EXCEPT !.has_run_seeding = TRUE]
    ELSE OdRaise(o, "ValueError: seed_flag not recognized.")

\* run(); the output format is one of the two the branches at its end write
od_run(o0) ==
    LET o == [o0 EXCEPT !.exc = ""] IN
    IF ~o.has_run_seeding
    THEN OdRaise(o, "ValueError: first run seeding with manager.seed.")
    ELSE [o EXCEPT !.has_run = TRUE]

\* the keyword arguments of the constructions made
OdKwargs ==
    [drift_model : {"OceanDrift", "Unknown"}, ocean_model : {"test", "NWGOA", "other"},
     ocean_model_local : BOOLEAN, start_time : BOOLEAN, end_time : BOOLEAN,
     seed_flag : {"elements", "geojson", "other"}]
\* the numbers of model outputs a reader has left: none, one, enough
OutputsLeft == 0..2

OdFrame == UNCHANGED <<kwargs, config, status, error, first, phase, m, raised, calls, shown, trace>>

OdNew ==
    /\ \E kw \in OdKwargs : od' = OdInit(kw)
    /\ OdFrame
OdAddReader ==
    /\ od.built
    /\ \E ds \in BOOLEAN, left \in OutputsLeft : od' = od_add_reader(od, ds, left)
    /\ OdFrame
OdSeed ==
    /\ od.built
    /\ od' = od_seed(od)
    /\ OdFrame
OdRun ==
    /\ od.built
    /\ od' = od_run(od)
    /\ OdFrame

NextLifecycle == OdNew \/ OdAddReader \/ OdSeed \/ OdRun

SpecLifecycle == Init /\ [][NextLifecycle]_vars

----------------------------------------------------------------------------
(* cli.py, main: trace is the sequence of the calls the execution has made, *)
(* its first item the command line; a call that raised is followed by       *)
(* "raise", which ends the execution.                                       *)

Last(seq) == seq[Len(seq)]
DryRun == Len(trace) > 0 /\ trace[1] = "main --dry-run"
\* trace after the call named, which left the object o
TraceAfter(name, o) ==
    IF o.exc = "" THEN Append(trace, name) ELSE trace \o <<name, "raise">>
\* main is at the statement after the call named
At(name) == Len(trace) > 0 /\ Last(trace) = name

CliFrame == UNCHANGED <<kwargs, config, status, error, first, phase, m, raised, calls, shown>>

\* args = parser.parse_args()
CliMain ==
    /\ trace = <<>>
    /\ od = NotBuilt
    /\ \E dry_run \in BOOLEAN :
         trace' = <<IF dry_run THEN "main --dry-run" ELSE "main">>
    /\ UNCHANGED od
    /\ CliFrame
\* m = ptm.OpenDriftModel(**args.kwargs)
CliConstruct ==
    /\ Len(trace) = 1
    /\ \E kw \in OdKwargs : od' = OdInit(kw)
    /\ trace' = TraceAfter("OpenDriftModel", od')
    /\ CliFrame
\* m.add_reader(), on either branch
CliAddReader ==
    /\ At("OpenDriftModel")
    /\ \E left \in OutputsLeft : od' = od_add_reader(od, FALSE, left)
    /\ trace' = TraceAfter("add_reader", od')
    /\ CliFrame
\* print(m.drift_model_config()), on either branch
CliPrintConfig ==
    /\ At("add_reader")
    /\ trace' = Append(trace, "print drift_model_config")
    /\ UNCHANGED od
    /\ CliFrame
\* m.seed() with the test of args.dry_run left out
CliSeed_on_dry_run ==
    /\ At("print drift_model_config")
    /\ od' = od_seed(od)
    /\ trace' = TraceAfter("seed", od')
    /\ CliFrame
\* m.seed(), on the else branch of "if args.dry_run"
CliSeed ==
    /\ At("print drift_model_config")
    /\ ~DryRun
    /\ od' = od_seed(od)
    /\ trace' = TraceAfter("seed", od')
    /\ CliFrame
\* m.run()
CliRun ==
    /\ At("seed")
    /\ od' = od_run(od)
    /\ trace' = TraceAfter("run", od')
    /\ CliFrame
\* print(m.outfile_name)
CliPrintOutfile ==
    /\ At("run")
    /\ trace' = Append(trace, "print outfile_name")
    /\ UNCHANGED od
    /\ CliFrame
\* m.logger.removeHandler(file_handler); file_handler.close()
CliClose ==
    /\ \/ At("print outfile_name")
       \/ At("print drift_model_config") /\ DryRun
    /\ trace' = Append(trace, "close")
    /\ UNCHANGED od
    /\ CliFrame

NextCli ==
    \/ CliMain \/ CliConstruct \/ CliAddReader \/ CliPrintConfig
    \/ CliSeed \/ CliRun \/ CliPrintOutfile \/ CliClose

SpecCli == Init /\ [][NextCli]_vars

----------------------------------------------------------------------------
(* The calls that exercise horizontal_diffusivity and the ocean model it    *)
(* is tuned to                                                              *)

KnownOceanModels == {"NWGOA", "CIOFS", "CIOFS_now"}
\* null, a value a user would give, and values the code derives
DiffusivityValues == {None, Some(0), Some(5), Some(10)}

DiffusivityKwargs ==
    {a @@ b : a \in Opt("ocean_model", OceanModelValues \ {None}),
              b \in Opt("horizontal_diffusivity", {Some(5)})}

NewDiffusivity == NewFrom(DiffusivityKwargs)
SetHorizontalDiffusivity ==
    \E v \in DiffusivityValues : Assign("horizontal_diffusivity", v)
SetOceanModelAfter ==
    \E v \in OceanModelValues \cup {Some("user_input")} : Assign("ocean_model", v)

NextDiffusivity == NewDiffusivity \/ SetHorizontalDiffusivity \/ SetOceanModelAfter

SpecDiffusivity == Init /\ [][NextDiffusivity]_vars

----------------------------------------------------------------------------
(* The interpolator file of OpenDriftModel (opendrift.py).  A file name or   *)
(* path is the sequence of its tokens: "test.nc" is <<"test", ".nc">>, a    *)
(* token that starts with a dot being a suffix.  In this part od is a       *)
(* record of the objects constructed so far, each with the keyword          *)
(* arguments it was given, its config and its save_interpolator, of the     *)
(* keyword arguments of the latest construction and of exc, the exception   *)
(* it raised.                                                               *)

\* the tokens that are suffixes
SuffixTokens == {".pickle", ".nc"}

\* appdirs.user_cache_dir(appname="particle-tracking-manager", ...), with the separator
CacheDir == <<"user_cache_dir", "/">>

\* PurePath.with_suffix(suffix): the last suffix is replaced, or the suffix is
\* added when the name has none
with_suffix(path, suffix) ==
    IF Len(path) > 1 /\ path[Len(path)] \in SuffixTokens
    THEN SubSeq(path, 1, Len(path) - 1) \o <<suffix>>
    ELSE path \o <<suffix>>

\* OpenDriftConfig(**kw), as far as the interpolator file goes: a file name
\* without use_cache is refused, with use_cache it gets the suffix ".pickle"
OpenDriftConfig(kw) ==
    IF kw.interpolator_filename # None /\ ~kw.use_cache
    THEN [ok |-> FALSE, err |-> "ValueError"]
    ELSE [ok |-> TRUE, err |-> "",
          self |-> IF kw.interpolator_filename # None
                   THEN [kw EXCEPT !.interpolator_filename =
                                      Some(Val(@) \o <<".pickle">>)]
                   ELSE kw]

\* _setup_interpolator that puts a file name it was given under cache_dir too
setup_interpolator_in_cache_dir(c) ==
    IF c.use_cache
    THEN [config |->
            [c EXCEPT !.interpolator_filename =
               IF @ = None
               THEN Some(CacheDir \o with_suffix(<<c.ocean_model, "_interpolator">>,
                                                 ".pickle"))
               ELSE Some(CacheDir \o with_suffix(Val(@), ".pickle"))],
          save_interpolator |-> TRUE]
    ELSE [config |-> c, save_interpolator |-> FALSE]

\* _setup_interpolator(): the object's config and save_interpolator after it
setup_interpolator(c) ==
    IF c.use_cache
    THEN [config |->
            [c EXCEPT !.interpolator_filename =
               IF @ = None
               THEN Some(CacheDir \o with_suffix(<<c.ocean_model, "_interpolator">>,
                                                 ".pickle"))
               ELSE Some(with_suffix(Val(@), ".pickle"))],
          save_interpolator |-> TRUE]
    ELSE [config |-> c, save_interpolator |-> FALSE]

\* the objects constructed so far
Objects(o) == IF "objects" \in DOMAIN o THEN o.objects ELSE <<>>

\* OpenDriftModel.__init__(**kw) up to _setup_interpolator, after earlier constructions
OdInitInterpolator(o, kw) ==
    IF ~OpenDriftConfig(kw).ok
    THEN [built |-> FALSE, exc |-> OpenDriftConfig(kw).err, given |-> kw,
          objects |-> Objects(o)]
    ELSE [built |-> TRUE, exc |-> "", given |-> kw,
          objects |-> Append(Objects(o),
                             [given |-> kw] @@ setup_interpolator(OpenDriftConfig(kw).self))]

FileNames == {None, Some(<<"test">>), Some(<<"test", ".nc">>)}
InterpolatorKwargs ==
    [ocean_model : {"NWGOA", "CIOFS", "CIOFSOP"}, ocean_model_local : BOOLEAN,
     use_cache : BOOLEAN, interpolator_filename : FileNames]

\* m = OpenDriftModel(**kw), one construction after another
OdNewInterpolator ==
    /\ Len(Objects(od)) < MaxModels
    /\ \E kw \in InterpolatorKwargs : od' = OdInitInterpolator(od, kw)
    /\ OdFrame

NextInterpolator == OdNewInterpolator

SpecInterpolator == Init /\ [][NextInterpolator]_vars

----------------------------------------------------------------------------
(* The calls made on TheManagerConfig that vary time_step, time_step_output *)
(* and the field the length of the simulation is given with                 *)

\* the length of the simulation: steps, a duration ("PT30M", "P35D") or an end_time
LengthKwargs ==
    {("steps" :> Some(n)) : n \in {StepsMin, StepsMax, StepsMax + 1}}
      \cup {("duration" :> Some(<< <<"M", TimeUnit>> >>)),
            ("duration" :> Some(<< <<"D", 35>> >>))}
      \cup {("end_time" :> Some(t)) : t \in Times}

OutputKwargs ==
    {a @@ b @@ c :
        a \in Opt("time_step", {1, 45, 90, TimeStepMax + 1}),
        b \in Opt("time_step_output", {0, 30, 90, TimeStepOutputMax + 1}),
        c \in LengthKwargs}

\* m = TheManagerConfig(time_step=..., time_step_output=..., <length>)
ConstructOutput ==
    /\ phase = "new"
    /\ \E kw \in OutputKwargs : Call(kw)
    /\ first' = config'
    /\ phase' = "constructed"
    /\ UNCHANGED <<m, raised, calls, shown, od, trace>>

NextOutput == ConstructOutput

SpecOutput == Init /\ [][NextOutput]_vars

----------------------------------------------------------------------------
(* The calls that exercise vertical_mixing and the three fields that are    *)
(* only used with it                                                        *)

\* the fields reset to their defaults while vertical_mixing is False
MixingFields == {"vertical_mixing_timestep", "diffusivitymodel", "mixed_layer_depth"}

\* for each field its default and another value
VerticalMixingTimestepValues == {ModelDefaults.vertical_mixing_timestep, 30}
DiffusivityModelValues == {ModelDefaults.diffusivitymodel, "windspeed_Large1994"}
MixedLayerDepthValues == {ModelDefaults.mixed_layer_depth, 10}

MixingKwargs ==
    {a @@ b @@ c @@ d @@ e :
        a \in Opt("do3D", {TRUE}),
        b \in Opt("vertical_mixing", {TRUE}),
        c \in Opt("vertical_mixing_timestep", {30}),
        d \in Opt("diffusivitymodel", {"windspeed_Large1994"}),
        e \in Opt("mixed_layer_depth", {10})}

NewMixing == NewFrom(MixingKwargs)
SetVerticalMixingTimestep ==
    \E v \in VerticalMixingTimestepValues : Assign("vertical_mixing_timestep", v)
SetDiffusivityModel == \E v \in DiffusivityModelValues : Assign("diffusivitymodel", v)
SetMixedLayerDepth == \E v \in MixedLayerDepthValues : Assign("mixed_layer_depth", v)

NextMixing ==
    \/ NewMixing \/ SetDo3D \/ SetSurfaceOnly \/ SetVerticalMixing
    \/ SetVerticalMixingTimestep \/ SetDiffusivityModel \/ SetMixedLayerDepth

SpecMixing == Init /\ [][NextMixing]_vars

----------------------------------------------------------------------------
(* The calls that exercise the checks of seed()                             *)

SeedingKwargs ==
    {a @@ b @@ c @@ d @@ e @@ f @@ g :
        a \in Opt("lon", {Some(-151)}),
        b \in Opt("lat", {Some(58)}),
        c \in Opt("z", {None}),
        d \in Opt("seed_seafloor", {TRUE}),
        e \in Opt("seed_flag", {"geojson"}),
        f \in Opt("geojson", {Some("polygon")}),
        g \in Opt("start_time", {Some(<<"str", 0>>)})}

NewSeeding == NewFrom(SeedingKwargs)

NextSeeding == NewSeeding \/ Seed

SpecSeeding == Init /\ [][NextSeeding]_vars

----------------------------------------------------------------------------
(* The calls that exercise run_all(): in this part trace is the sequence of *)
(* the calls the latest run_all() made                                      *)

RunAllKwargs ==
    {[lon |-> Some(-151)] @@ a @@ b @@ c :
        a \in Opt("lat", {Some(58)}),
        b \in Opt("start_time", {Some(<<"str", 0>>)}),
        c \in Opt("ocean_model", {Some("test"), Some("NWGOA")})}

NewRunAll == NewFrom(RunAllKwargs)

\* m.run_all()
RunAll ==
    /\ m # NoObject
    /\ calls < MaxRunCalls
    /\ \E rd \in Readers, accepted \in BOOLEAN :
         \E r \in {run_all(Begin(m), rd, accepted)} :
            /\ m' = r.o
            /\ trace' = r.t
    /\ raised' = m'.exc
    /\ calls' = calls + 1
    /\ UNCHANGED <<kwargs, config, status, error, first, phase, shown, od>>

NextRunAll == NewRunAll \/ AddReader \/ Seed \/ Run \/ RunAll

SpecRunAll == Init /\ [][NextRunAll]_vars

----------------------------------------------------------------------------
(* Claims about TheManagerConfig *)

\* the time fields that are non-null when the validators start
Given == {f \in TimeFields : Fields(kwargs)[f] # None}
\* the call passed nothing but time arguments, each within its declared bounds
OnlyTimeArguments ==
    /\ DOMAIN kwargs \subseteq TimeFields \cup {"time_step", "run_forward"}
    /\ "steps" \in Given => Val(kwargs.steps) \in StepsMin..StepsMax
FivePairs ==
    {{"start_time", "end_time"}, {"start_time", "duration"},
     {"start_time", "steps"}, {"end_time", "duration"}, {"end_time", "steps"}}
Called == status # "none"
Succeeded == status = "ok"
\* the resolved window of the object, as numbers
Start == Val(config.start_time)
End == Val(config.end_time)
Duration == Timedelta(Val(config.duration))
Steps == Val(config.steps)

\* C1: construction fails when 0, 1 or 3 of start_time, end_time, duration, steps
\* are non-null and when start_time and end_time are both null; it succeeds only
\* with exactly two non-null (one of them a timestamp) or with all four.
C1_TimeFieldCount ==
    Called =>
        /\ Cardinality(Given) \in {0, 1, 3} => status = "error"
        /\ Given \cap {"start_time", "end_time"} = {} => status = "error"
        /\ Succeeded =>
              \/ Cardinality(Given) = 2 /\ Given \cap {"start_time", "end_time"} # {}
              \/ Cardinality(Given) = 4
C1_Witness ==
    /\ status = "error"
    /\ Given = {"start_time", "end_time", "steps"}
    /\ OnlyTimeArguments

C3_WindowConsistent ==
    Succeeded =>
        /\ Duration = Abs(End - Start)
        /\ Steps * config.time_step = Duration

\* C4: feeding the four resolved values of a successfully constructed
\* configuration back, with the same time_step and run_forward, is accepted and
\* yields the same four values.
C4_Idempotent ==
    phase = "reresolved" =>
        /\ Succeeded
        /\ \A f \in TimeFields : config[f] = first[f]

\* C5: with all four time fields supplied, construction succeeds only if the
\* supplied duration and steps equal the values recomputed from start_time,
\* end_time and time_step.
C5_FourFieldsChecked ==
    (Succeeded /\ Cardinality(Given) = 4) =>
        LET delta == Abs(Val(kwargs.end_time) - Val(Fields(kwargs).start_time))
        IN  /\ Val(kwargs.duration) = isoformat(delta)
            /\ Val(kwargs.steps) * Fields(kwargs).time_step <= delta
            /\ delta < (Val(kwargs.steps) + 1) * Fields(kwargs).time_step
C5_Witness ==
    /\ phase = "constructed"
    /\ Cardinality(Given) = 4
    /\ status = "error"
    /\ error = "steps and calculated steps are inconsistent"
    /\ Val(kwargs.end_time) > Val(Fields(kwargs).start_time)
    /\ (Val(kwargs.steps) + 1) * Fields(kwargs).time_step
          = Val(kwargs.end_time) - Val(Fields(kwargs).start_time)

\* C6: after every successful construction
\* end_time = start_time + timedir * steps * time_step.
C6_EndFromSteps ==
    Succeeded =>
        End = Start + (IF config.run_forward THEN 1 ELSE -1) * Steps * config.time_step

C8_SeedFlagExclusive ==
    Called =>
        LET f == Fields(kwargs)
        IN  /\ (f.seed_flag = "elements" /\ f.geojson # None) => status = "error"
            /\ (f.seed_flag = "elements" /\ (f.lon = None \/ f.lat = None))
                  => status = "error"
            /\ (f.seed_flag = "geojson" /\ f.geojson = None) => status = "error"
            /\ (f.seed_flag = "geojson" /\ (f.lon # None \/ f.lat # None))
                  => status = "error"

\* C9: a call with a keyword that is no field of the schema fails and produces
\* no configuration object.
C9_UnknownFieldRejected ==
    (Called /\ DOMAIN kwargs \ FieldNames # {}) =>
        /\ status = "error"
        /\ config = NoConfig
C9_Witness ==
    /\ DOMAIN kwargs = {"steps", "unknown"}
    /\ status = "error"
    /\ error = "extra_forbidden"
----------------------------------------------------------------------------
(* Claims about ParticleTrackingManager / OpenDriftModel *)

Alive == m # NoObject

\* C10: in every state reached by construction, assignments and add_reader
\* (the longitude shift for a 0-360 ocean model included), a non-null lon of
\* the object lies in [-180, 180] and a non-null lat lies in [-90, 90].
C10_LonLatInRange ==
    Alive =>
        /\ m.a.lon # None => -180 <= Val(m.a.lon) /\ Val(m.a.lon) <= 180
        /\ m.a.lat # None => -90 <= Val(m.a.lat) /\ Val(m.a.lat) <= 90

\* the same, only over states whose latest call raised nothing
C10_LonLatInRangeAfterSuccess ==
    Alive /\ raised = "" => C10_LonLatInRange

\* the constructor was given keyword k with value v
Given_(k, v) == k \in DOMAIN kwargs /\ kwargs[k] = v

\* C11: when a call m.surface_only = True returns, whatever do3D, z and
\* vertical_mixing were before, do3D is False, z is 0 and vertical_mixing is False.
C11_SurfaceOnlyCascades ==
    [][(Assign("surface_only", Some(TRUE)) /\ raised' = "")
         => /\ m'.a.do3D = FALSE
            /\ m'.a.z = Some(0)
            /\ m'.a.vertical_mixing = FALSE]_vars

\* an object constructed with do3D=True, z=-10, vertical_mixing=True, whose
\* one call so far set surface_only to True
C11_Witness ==
    /\ Alive /\ calls = 1 /\ raised = ""
    /\ "surface_only" \notin DOMAIN kwargs
    /\ Given_("do3D", TRUE) /\ Given_("z", Some(-10)) /\ Given_("vertical_mixing", TRUE)
    /\ m.a.surface_only = Some(TRUE)
    /\ m.a.do3D = FALSE /\ m.a.z = Some(0) /\ m.a.vertical_mixing = FALSE


\* the latest call on the object (its construction when calls = 0) raised nothing
Accepted == Alive /\ raised = ""

\* C12: in every state reached by construction and successful sets,
\* surface_only = True implies do3D = False, z = 0 and vertical_mixing = False
C12_SurfaceOnlyInvariant ==
    (Accepted /\ m.a.surface_only = Some(TRUE))
        => /\ m.a.do3D = FALSE
           /\ m.a.z = Some(0)
           /\ m.a.vertical_mixing = FALSE

\* C12 for the objects on which no call has raised: the construction alone
\* (calls = 0) or the construction and one set that returned (calls = 1)
C12_SurfaceOnlyNoFailure ==
    (Accepted /\ calls <= 1 /\ m.a.surface_only = Some(TRUE))
        => /\ m.a.do3D = FALSE
           /\ m.a.z = Some(0)
           /\ m.a.vertical_mixing = FALSE


\* C13: in every state reached by a successful construction or set,
\* do3D = False implies vertical_mixing = False, in the attributes and in
\* the values of config_ptm
C13_No3DNoMixing ==
    Accepted =>
        /\ m.a.do3D = FALSE => m.a.vertical_mixing = FALSE
        /\ m.ptm.do3D = FALSE => m.ptm.vertical_mixing = FALSE

\* OpenDriftModel(vertical_mixing=True) with do3D left at False returned:
\* vertical_mixing was turned off
C13_Witness ==
    /\ Accepted /\ calls = 0
    /\ Given_("vertical_mixing", TRUE)
    /\ "do3D" \notin DOMAIN kwargs
    /\ "surface_only" \notin DOMAIN kwargs
    /\ m.a.do3D = FALSE /\ m.a.vertical_mixing = FALSE
    /\ m.ptm.do3D = FALSE /\ m.ptm.vertical_mixing = FALSE


\* C14: in every state reached by a successful construction or set,
\* z is None if and only if seed_seafloor is True
C14_ZNullIffSeafloor ==
    Accepted => (m.a.z = None <=> m.a.seed_seafloor = TRUE)

\* the half of C14 the assignments do keep: seed_seafloor True implies z None
C14_SeafloorImpliesZNull ==
    Accepted => (m.a.seed_seafloor = TRUE => m.a.z = None)


\* the variant selected at construction: the class of the engine object
Variant == m.a.o

\* C15: after construction every set of drift_model to a value other than the
\* variant selected at construction raises, and the object's drift_model
\* stays that variant
C15_DriftModelFixed ==
    [][\A v \in DriftModels \cup {"Drift"} :
          (Assign("drift_model", v) /\ v # Variant)
              => /\ raised' # ""
                 /\ m'.a.drift_model = Variant]_vars

\* the first half of C15 alone: the set raises
C15_OverwriteRaises ==
    [][\A v \in DriftModels \cup {"Drift"} :
          (Assign("drift_model", v) /\ v # Variant) => raised' # ""]_vars

\* the first half of C15 for the four variant names: the set raises
C15_OverwriteByVariantRaises ==
    [][\A v \in DriftModels :
          (Assign("drift_model", v) /\ v # Variant) => raised' # ""]_vars

\* the second half of C15 alone: drift_model always names the variant
C15_VariantNeverChanges == Alive => m.a.drift_model = Variant


\* the constructor call raised and returned no object
Failed == m = NoObject /\ raised # ""
\* OpenDriftModel(drift_model="Leeway", ...) with a setting Leeway forbids
LeewayForbiddenGiven ==
    /\ Given_("drift_model", "Leeway")
    /\ \/ Given_("stokes_drift", TRUE)
       \/ "wind_drift_factor" \in DOMAIN kwargs
            /\ kwargs.wind_drift_factor # ModelDefaults.wind_drift_factor
       \/ "wind_drift_depth" \in DOMAIN kwargs
            /\ kwargs.wind_drift_depth # ModelDefaults.wind_drift_depth
       \/ Given_("do3D", TRUE)

\* C16: constructing a Leeway object with stokes_drift = True, a non-default
\* wind_drift_factor or wind_drift_depth, or do3D = True fails with an error
C16_LeewayForbiddenFails == LeewayForbiddenGiven => Failed

\* what the constructor does instead for the three pinned fields: it returns
\* an object that holds the pinned values
C16_LeewayForbiddenReset ==
    (LeewayForbiddenGiven /\ calls = 0)
        => /\ Accepted
           /\ m.a.stokes_drift = FALSE
           /\ m.a.wind_drift_factor = ModelDefaults.wind_drift_factor
           /\ m.a.wind_drift_depth = ModelDefaults.wind_drift_depth


\* the three fields Leeway pins hold the pinned values, in the attributes and
\* in the values of config_model
LeewayPinned ==
    /\ m.a.stokes_drift = FALSE
    /\ m.a.wind_drift_factor = ModelDefaults.wind_drift_factor
    /\ m.a.wind_drift_depth = ModelDefaults.wind_drift_depth
    /\ m.mod.stokes_drift = FALSE
    /\ m.mod.wind_drift_factor = ModelDefaults.wind_drift_factor
    /\ m.mod.wind_drift_depth = ModelDefaults.wind_drift_depth

\* C17: on an object whose variant is Leeway, after construction and after
\* every successful set, stokes_drift is False and wind_drift_factor and
\* wind_drift_depth equal their defaults
C17_LeewayPinned == (Accepted /\ Variant = "Leeway") => LeewayPinned

\* C17 for the objects whose drift_model attribute still names the variant
C17_LeewayPinnedWhileNamed ==
    (Accepted /\ Variant = "Leeway" /\ m.a.drift_model = "Leeway") => LeewayPinned


\* OpenDriftModel(drift_model="LarvalFish", ...) with do3D=False or
\* vertical_mixing=False
LarvalFishFlatGiven ==
    /\ Given_("drift_model", "LarvalFish")
    /\ Given_("do3D", FALSE) \/ Given_("vertical_mixing", FALSE)

\* C18: constructing a LarvalFish object with do3D = False or with
\* vertical_mixing = False fails with an error
C18_LarvalFishFlatFails == LarvalFishFlatGiven => Failed

\* C18, second sentence: a LarvalFish object is always 3D with vertical mixing on
C18_LarvalFishAlways3D ==
    (Accepted /\ Variant = "LarvalFish")
        => m.a.do3D = TRUE /\ m.a.vertical_mixing = TRUE


\* C19: constructing with a drift_model that is none of OceanDrift, LarvalFish,
\* OpenOil, Leeway raises, and no object is returned
C19_UnknownDriftModelFails ==
    ("drift_model" \in DOMAIN kwargs /\ kwargs.drift_model \notin DriftModels)
        => /\ m = NoObject
           /\ raised = "ValueError"

\* OpenDriftModel(drift_model="Unknown") was called and raised
C19_Witness ==
    /\ Given_("drift_model", "Unknown")
    /\ m = NoObject
    /\ raised = "ValueError"


\* the values the namespace ns (with keys Keys) holds for the name n of the
\* merged view, n being a key of the namespace or the engine-native key one
\* of its keys maps to
ValuesIn(ns, Keys, n) ==
    {ns[k] : k \in {j \in Keys \cap DOMAIN ns :
                        j = n \/ (j \in DOMAIN OdMapping /\ OdMapping[j] = n)}}
ManagerValues(n) == ValuesIn(m.ptm, PtmKeys, n)
ModelValues(n) == ValuesIn(m.mod, ModelKeys, n)

NamespaceValue(k) == IF k \in PtmKeys THEN m.ptm[k] ELSE m.mod[k]

\* C21, first half: for every mapped field the merged view holds the same
\* value under the semantic name and under the engine-native key
C21_SameValue ==
    Alive =>
        \A k \in MappedKeys :
            /\ k \in DOMAIN show_config(m) <=> OdMapping[k] \in DOMAIN show_config(m)
            /\ k \in DOMAIN show_config(m)
                 => show_config(m)[k] = show_config(m)[OdMapping[k]]

\* C21, a write through the semantic name: after a set that returned, both
\* entries of the merged view show the attribute's value
C21_SemanticWriteShown ==
    Accepted =>
        \A k \in MappedKeys \cap DOMAIN m.a :
            /\ show_config(m)[k] = m.a[k]
            /\ show_config(m)[OdMapping[k]] = m.a[k]

\* C21, a write through the engine-native key: after m.o.set_config(key, value)
\* both entries of the next merged view show the value written
C21_EngineWriteShown ==
    [][\A k \in {"vertical_mixing", "stokes_drift"} : \A value \in BOOLEAN :
          (/\ EngineSetConfig
           /\ m' = set_config(Begin(m), OdMapping[k], value)
           /\ raised' = "")
              => /\ show_config(m')[k] = value
                 /\ show_config(m')[OdMapping[k]] = value]_vars

\* C21: the two entries always agree and a write through either name is the
\* value both show after the next merge
C21_WritesReflected ==
    /\ []C21_SameValue
    /\ []C21_SemanticWriteShown
    /\ C21_EngineWriteShown


Requested(level) == IF level[1] = "list" THEN level[2] ELSE {level[2]}
\* the entries of cfg that pass every filter given
Matching(cfg, prefix, substring, excludestring, level, ptm_level) ==
    Restrict(cfg,
        {k \in DOMAIN cfg :
            /\ startswith(k, prefix)
            /\ contains(k, substring)
            /\ ~contains(k, excludestring)
            /\ level # None
                 => cfg[k].level # None /\ Val(cfg[k].level) \in Requested(level)
            /\ ptm_level # None
                 => cfg[k].ptm_level # None
                      /\ Val(cfg[k].ptm_level) \in Requested(ptm_level)})
ShownMatching ==
    Matching(shown.cfg, shown.prefix, shown.substring, shown.excludestring,
             shown.level, shown.ptm_level)
Queried == shown.called /\ shown.call = "show_config_model"

\* C23: without key, show_config returns exactly the entries whose key starts
\* with prefix, contains substring, does not contain excludestring and carries
\* each given level / ptm_level with a requested value; with a key that is in
\* that result, it returns that key's metadata alone
C23_FilterExact ==
    Queried =>
        /\ shown.key = None => shown.result = ShownMatching
        /\ (shown.key # None /\ Val(shown.key) \in DOMAIN ShownMatching)
             => shown.result = shown.cfg[Val(shown.key)]

\* a query by prefix, excludestring and a scalar level that kept some entries
\* and dropped others
C23_Witness ==
    /\ Queried
    /\ shown.key = None
    /\ shown.prefix = <<"a">>
    /\ shown.excludestring = <<"b">>
    /\ shown.level = Scalar(1)
    /\ shown.result # <<>>
    /\ DOMAIN shown.result # DOMAIN shown.cfg
    /\ \E k \in DOMAIN shown.cfg : contains(k, <<"b">>) /\ shown.cfg[k].level = Some(1)


Exported == shown.called /\ shown.call = "drift_model_config"
\* the entry of name k is visible at one of the tiers asked for
VisibleAt(cfg, k, ptm_level) ==
    cfg[k].ptm_level # None /\ Val(cfg[k].ptm_level) \in Requested(ptm_level)

\* C24: no pair returned by drift_model_config has a null value, and every
\* returned name is a field visible at one of the requested exposure tiers
C24_NoNullAllVisible ==
    Exported =>
        \A i \in DOMAIN shown.result :
            /\ shown.result[i][2] # None
            /\ VisibleAt(shown.cfg, shown.result[i][1], shown.ptm_level)

\* C24, the part that holds: the pairs other than those of the extra keys have
\* a value and a requested tier
C24_ListedNoNullAllVisible ==
    Exported =>
        \A i \in DOMAIN shown.result :
            shown.result[i][1] \notin {extra_keys[j] : j \in DOMAIN extra_keys}
              => /\ shown.result[i][2] # None
                 /\ VisibleAt(shown.cfg, shown.result[i][1], shown.ptm_level)


\* C26: in OpenDriftModel (opendrift.py) seed() raises and leaves
\* has_run_seeding false unless has_added_reader is true, run() raises and
\* leaves has_run false unless has_run_seeding is true
C26_GuardsRaise ==
    [][/\ (OdSeed /\ ~od.has_added_reader)
            => od'.exc # "" /\ ~od'.has_run_seeding
       /\ (OdRun /\ ~od.has_run_seeding)
            => od'.exc # "" /\ ~od'.has_run]_vars

\* C26: hence in every reachable state has_run implies has_run_seeding, which
\* implies has_added_reader
C26_FlagsOrdered ==
    od.built => /\ od.has_run => od.has_run_seeding
                /\ od.has_run_seeding => od.has_added_reader

C26_Lifecycle == C26_GuardsRaise /\ []C26_FlagsOrdered

\* an object that went through add_reader, seed and run
C26_Witness ==
    od.built /\ od.has_run /\ od.has_run_seeding /\ od.has_added_reader /\ od.exc = ""


\* C25: when the CLI is run with --dry-run, neither seed() nor run() is
\* invoked at any point of the execution, and the execution that completes has
\* constructed the object and printed its resolved configuration
C25_DryRunNoEngine ==
    DryRun =>
        /\ "seed" \notin Range(trace)
        /\ "run" \notin Range(trace)
        /\ At("close") =>
             /\ od.built
             /\ trace = <<"main --dry-run", "OpenDriftModel", "add_reader",
                          "print drift_model_config", "close">>

\* a dry run that completed
C25_Witness ==
    DryRun /\ At("close") /\ "print drift_model_config" \in Range(trace)


\* run() has completed on the object
HasRun == m # NoObject /\ m.a.has_run

\* C27: once run() has handed the configuration to the engine, no later set
\* of a configuration field is accepted, the object cannot be run a second
\* time, and no configuration value changes again
C27_FrozenAfterRun ==
    [][HasRun =>
         /\ (SetLonRun \/ SetStepsRun \/ Run) => raised' # ""
         /\ m'.ptm = m.ptm /\ m'.mod = m.mod /\ m'.oc = m.oc]_vars

\* C27, what the code does instead: a set made after the run is carried out as
\* before it, and run() runs again
C27_SetAndRunAfterRun ==
    /\ m # NoObject
    /\ m.a.has_run
    /\ calls = MaxRunCalls
    /\ raised = ""


\* C28: a set call that raises an error (out-of-range lon or lat, a start_time
\* of a wrong type, an attempt to change drift_model) leaves every attribute
\* and every config value as it was before the call
C28_FailedSetLeavesNoTrace ==
    [][(m # NoObject
          /\ (SetLon \/ SetLat \/ SetStartTime \/ SetOceanModel \/ SetDriftModel)
          /\ raised' # "")
         => m'.a = m.a /\ m'.ptm = m.ptm /\ m'.mod = m.mod /\ m'.oc = m.oc]_vars

\* C28, what the code does instead: the object after a set of lon that raised
\* holds the refused value
C28_RefusedValueKept ==
    /\ m # NoObject
    /\ raised = "AssertionError"
    /\ m.a.lon = Some(181)
    /\ m.ptm.lon = Some(181)


\* C29: every call of the set entry point terminates after finitely many
\* nested cascade sets: no call nests __setattr__ up to the interpreter's
\* limit, from any reachable configuration and for any field and value set
C29_CascadeTerminates ==
    /\ raised # "RecursionError"
    /\ m # NoObject => m.deepest < RecursionLimit /\ m.depth = 0

\* a set that cascaded: surface_only set z, whose set cleared seed_seafloor
C29_Witness ==
    /\ m # NoObject
    /\ calls > 0
    /\ raised = ""
    /\ m.deepest >= 3
    /\ m.a.surface_only = Some(TRUE)


\* the log records that announce a change of field k
LogsAbout(k) ==
    CASE k = "do3D" -> {"overriding do3D, z, vertical_mixing"}
      [] k = "z" -> {"overriding do3D, z, vertical_mixing", "setting z to None"}
      [] k = "vertical_mixing" ->
           {"overriding do3D, z, vertical_mixing", "turning off vertical_mixing"}
      [] k = "seed_seafloor" -> {"setting seed_seafloor to False"}
      [] k = "start_time" -> {"setting reader start_time as simulation start_time"}
      [] k = "horizontal_diffusivity" ->
           {"overriding horizontal_diffusivity",
            "changing horizontal_diffusivity from None to 0"}
      [] k = "stokes_drift" -> {"stokes_drift cannot be used with Leeway"}
      [] k = "wind_drift_factor" -> {"wind_drift_factor cannot be used with Leeway"}
      [] k = "wind_drift_depth" -> {"wind_drift_depth cannot be used with Leeway"}
      [] k = "vertical_mixing_timestep" -> {"vertical_mixing_timestep is not used"}
      [] k = "diffusivitymodel" -> {"diffusivitymodel is not used"}
      [] k = "mixed_layer_depth" -> {"mixed_layer_depth is not used"}
      [] OTHER -> {}
\* the fields other than those in Set whose value the step changed
ChangedBeside(Set) ==
    {k \in (DOMAIN m.a \cap DOMAIN m'.a) \ Set : m'.a[k] # m.a[k]}
\* every field the step changed beside those in Set has a log record of the call
LoggedBeside(Set) == \A k \in ChangedBeside(Set) : m'.log \cap LogsAbout(k) # {}
\* the fields add_reader itself assigns
ReaderFields == {"ocean_model", "reader", "oceanmodel_lon0_360", "has_added_reader"}

\* C30: every change the manager makes to a field other than the one the caller
\* set, direct writes included, comes with a log record of the same call
C30_NoSilentChange ==
    [][m # NoObject =>
         /\ SetLon => LoggedBeside({"lon"})
         /\ SetLat => LoggedBeside({"lat"})
         /\ SetOceanModel => LoggedBeside({"ocean_model"})
         /\ SetStartTime => LoggedBeside({"start_time"})
         /\ AddReader => LoggedBeside(ReaderFields)]_vars

\* C30, the part that holds: every change the cascade among surface_only,
\* do3D, z, vertical_mixing and seed_seafloor makes, by a nested set or by the
\* direct write of vertical_mixing, is logged
C30_CascadeSetsLogged ==
    [][m # NoObject =>
         /\ SetSurfaceOnly => LoggedBeside({"surface_only"})
         /\ SetDo3D => LoggedBeside({"do3D"})
         /\ SetZ => LoggedBeside({"z"})
         /\ SetVerticalMixing => LoggedBeside({"vertical_mixing"})
         /\ SetSeedSeafloor => LoggedBeside({"seed_seafloor"})]_vars


\* the value the claims expect for an ocean model given by the user as om:
\* 0.1 times the grid resolution of a known model, 0 for any other or none
Tuned(om) ==
    IF om # None /\ Val(om) \in KnownOceanModels
    THEN Some(TunedDiffusivity(Val(om))) ELSE Some(0)

\* the ocean model as the user named it: the stored name is upper case
NamedBy(om, stored) == stored = (IF om = None THEN None ELSE Some(Upper(Val(om))))

\* C31: after any set of horizontal_diffusivity to null that returns,
\* horizontal_diffusivity is 150 when the ocean model is NWGOA, 10 when it is
\* CIOFS or CIOFS_now, and 0 when the ocean model is any other or none
C31_NullRederived ==
    [][(Assign("horizontal_diffusivity", None) /\ raised' = "")
         => \A om \in OceanModelValues \cup {Some("user_input")} :
               NamedBy(om, m.a.ocean_model)
                  => m'.a.horizontal_diffusivity = Tuned(om)]_vars

\* C31 without CIOFS_now: the value after the set is that of the stored name
C31_NullRederivedStoredName ==
    [][(Assign("horizontal_diffusivity", None) /\ raised' = "")
         => /\ m'.a.horizontal_diffusivity # None
            /\ m'.a.horizontal_diffusivity =
                  (IF m.a.ocean_model \in {Some("NWGOA"), Some("CIOFS")}
                   THEN Some(TunedDiffusivity(Val(m.a.ocean_model)))
                   ELSE Some(0))]_vars


\* a value of horizontal_diffusivity that no derivation produces: it is on
\* the object only because the user gave it
UserDiffusivity == Some(5)

\* C35: a set of ocean_model to a known model that returns leaves a
\* horizontal_diffusivity the user gave as it is, and otherwise (the value was
\* derived, or stood for an unset one) derives it for the model set
C35_UserValueKept ==
    [][\A om \in KnownOceanModels :
          (Assign("ocean_model", Some(om)) /\ raised' = "")
             => m'.a.horizontal_diffusivity =
                   (IF m.a.horizontal_diffusivity = UserDiffusivity
                    THEN UserDiffusivity ELSE Some(TunedDiffusivity(om)))]_vars

\* what the set does: the value is derived for the model set, whatever it was
C35_AlwaysDerived ==
    [][\A om \in KnownOceanModels :
          (Assign("ocean_model", Some(om)) /\ raised' = "")
             => m'.a.horizontal_diffusivity = Some(TunedDiffusivity(om))]_vars


\* the object was given use_cache and no file name: its file is the cache's
CacheKeyed(obj) == obj.given.use_cache /\ obj.given.interpolator_filename = None
\* the interpolator file assigned to the object
PathOf(obj) == Val(obj.config.interpolator_filename)

\* C32: of two objects constructed with use_cache and without a file name,
\* those with the same configuration have the same interpolator file (stable)
\* and those that differ in the ocean model or in another configuration value
\* have different files (collision-free)
C32_StableCollisionFree ==
    \A i, j \in 1..Len(Objects(od)) :
        (CacheKeyed(od.objects[i]) /\ CacheKeyed(od.objects[j]))
            => (od.objects[i].given = od.objects[j].given
                   <=> PathOf(od.objects[i]) = PathOf(od.objects[j]))

\* what the code provides: the file is the same exactly when the ocean model
\* named at construction is
C32_KeyedByOceanModel ==
    \A i, j \in 1..Len(Objects(od)) :
        (CacheKeyed(od.objects[i]) /\ CacheKeyed(od.objects[j]))
            => (od.objects[i].given.ocean_model = od.objects[j].given.ocean_model
                   <=> PathOf(od.objects[i]) = PathOf(od.objects[j]))


\* the latest construction was given a file name / use_cache
FileGiven == od.given.interpolator_filename # None
CacheGiven == od.given.use_cache

C34_OutputStepMultiple ==
    status = "ok" =>
        /\ config.time_step_output >= config.time_step
        /\ config.time_step_output % config.time_step = 0

\* what the construction does ensure: the two fields lie within their bounds
C34_OutputStepBounds ==
    status = "ok" =>
        /\ 0 < config.time_step /\ config.time_step <= TimeStepMax
        /\ TimeStepOutputMin <= config.time_step_output
        /\ config.time_step_output <= TimeStepOutputMax


\* C40: after every successful construction steps lies in 1..10000, also
\* when it was derived from duration or from start_time and end_time
C40_StepsWithinBounds ==
    status = "ok" =>
        /\ config.steps # None
        /\ StepsMin <= Val(config.steps) /\ Val(config.steps) <= StepsMax

\* the claim for the constructions that were given steps
C40_SuppliedStepsWithinBounds ==
    (status = "ok" /\ "steps" \in DOMAIN kwargs) =>
        /\ config.steps = kwargs.steps
        /\ StepsMin <= Val(config.steps) /\ Val(config.steps) <= StepsMax


\* the three fields hold their schema defaults
MixingFieldsAtDefault == \A k \in MixingFields : m.a[k] = ModelDefaults[k]

\* C36: after every set call that returns, whichever field it set, if
\* vertical_mixing is False then vertical_mixing_timestep, diffusivitymodel
\* and mixed_layer_depth hold their schema defaults
C36_MixingOffDefaults ==
    (Accepted /\ calls >= 1 /\ ~m.a.vertical_mixing) => MixingFieldsAtDefault

\* the claim for the sets of surface_only and of the three fields: after one
\* that returns, vertical_mixing False implies the defaults
C36_OtherSetsReset ==
    [][((SetSurfaceOnly \/ SetVerticalMixingTimestep \/ SetDiffusivityModel
           \/ SetMixedLayerDepth)
        /\ raised' = "" /\ ~m'.a.vertical_mixing)
         => \A k \in MixingFields : m'.a[k] = ModelDefaults[k]]_vars

\* the same for a set of vertical_mixing to False
C36_MixingOffResets ==
    [][(Assign("vertical_mixing", FALSE) /\ raised' = "")
         => \A k \in MixingFields : m'.a[k] = ModelDefaults[k]]_vars


\* what the claim says seed() refuses: seed_flag "elements" with lon or lat
\* null, seed_flag "geojson" with geojson null, z null without seed_seafloor
MustRefuse(s) ==
    \/ s.a.seed_flag = "elements" /\ (s.a.lon = None \/ s.a.lat = None)
    \/ s.a.seed_flag = "geojson" /\ s.a.geojson = None
    \/ s.a.z = None /\ ~s.a.seed_seafloor

\* C37: on an object that has not been seeded, seed() raises and leaves
\* has_run_seeding False whenever seed_flag is "elements" and lon or lat is
\* null, seed_flag is "geojson" and geojson is null, or z is null while
\* seed_seafloor is False
C37_SeedRefuses ==
    [][(Seed /\ ~m.a.has_run_seeding /\ MustRefuse(m))
         => (raised' # "" /\ ~m'.a.has_run_seeding)]_vars

\* what the checks of seed() refuse: lon and lat both null with "elements",
\* geojson null with "geojson", z null without seed_seafloor
C37_ChecksRefuse ==
    [][(Seed /\ ~m.a.has_run_seeding
          /\ \/ m.a.seed_flag = "elements" /\ m.a.lon = None /\ m.a.lat = None
             \/ m.a.seed_flag = "geojson" /\ m.a.geojson = None
             \/ m.a.z = None /\ ~m.a.seed_seafloor)
         => (raised' \in {"KeyError", "AssertionError"} /\ ~m'.a.has_run_seeding)]_vars


\* the stages of run_all() in their order, and the flag each one sets
StageOrder == <<"add_reader", "seed", "run">>
StageFlag(stage) ==
    CASE stage = "add_reader" -> "has_added_reader"
      [] stage = "seed" -> "has_run_seeding"
      [] stage = "run" -> "has_run"

\* t names stages in their order, none of them twice
InStageOrder(t) ==
    \A i, j \in 1..Len(t) :
        i < j => \E p, q \in 1..Len(StageOrder) :
                    p < q /\ t[i] = StageOrder[p] /\ t[j] = StageOrder[q]

\* C38: a run_all() makes only calls of stages whose flag was False before
\* it, each at most once and in the order add_reader, seed, run; when it
\* returns it has made every one of them and the three flags are True; a
\* run_all() on an object whose three flags are True makes no call
C38_RunAllStages ==
    [][RunAll =>
         /\ InStageOrder(trace')
         /\ \A i \in 1..Len(trace') : ~m.a[StageFlag(trace'[i])]
         /\ raised' = ""
               => /\ \A stage \in Range(StageOrder) :
                        ~m.a[StageFlag(stage)] => stage \in Range(trace')
                  /\ m'.a.has_added_reader /\ m'.a.has_run_seeding /\ m'.a.has_run
         /\ (m.a.has_added_reader /\ m.a.has_run_seeding /\ m.a.has_run)
               => (trace' = <<>> /\ raised' = "")]_vars

\* a run_all() on an object whose reader had been added by add_reader() made
\* the calls seed and run, no other, and returned with the three flags True
C38_Witness ==
    /\ Alive /\ raised = "" /\ calls = 2
    /\ m.a.has_added_reader /\ m.a.has_run_seeding /\ m.a.has_run
    /\ trace = <<"seed", "run">>

\* a run_all() on a new object made the three calls and returned
C38_WitnessAllStages ==
    /\ Alive /\ raised = "" /\ calls = 1
    /\ m.a.has_added_reader /\ m.a.has_run_seeding /\ m.a.has_run
    /\ trace = StageOrder



(***************************************************************************)
(* C39: the config mirrors the attributes                                  *)
(***************************************************************************)

\* config_ptm[k]["value"] against getattr(m, k) for the keys the object has
Mirrored(k) == k \in DOMAIN m.a /\ k \in DOMAIN m.ptm => m.ptm[k] = m.a[k]

\* C39: after every set call and every lifecycle operation, the longitude
\* shift of add_reader and the normalisation of start_time and ocean_model
\* included, the config's stored value of each manager field equals the
\* object's attribute of that name.
C39_ConfigMirrorsAttributes == Alive => \A k \in PtmKeys : Mirrored(k)

\* the fields other than lon are mirrored, whatever was called
C39_MirroredButLon == Alive => \A k \in PtmKeys \ {"lon"} : Mirrored(k)

\* the normalised start_time and ocean_model are in both places
C39_NormalisedMirrored ==
    Alive /\ m.a.ocean_model # None /\ m.a.start_time # None
    /\ m.a.ocean_model = m.ptm.ocean_model /\ m.a.start_time = m.ptm.start_time
    /\ Val(m.a.start_time)[1] = "Timestamp"

\* add_reader has shifted the attribute, the config keeps the longitude given
C39_ShiftedLonNotMirrored ==
    Alive /\ m.exc = "" /\ m.a.has_added_reader
    /\ m.a.lon # None /\ m.ptm.lon # None
    /\ Val(m.a.lon) = Val(m.ptm.lon) + 360

============================================================================
